---- MODULE Spec2Model ----
(***************************************************************************)
(* Parts catalogue: the part-application workflow of PartApplicationPage   *)
(* (src/src/pages/take-photo.tsx) over FirebaseService                      *)
(* (src/src/services/firebase.ts), and the parts repository reads.          *)
(*                                                                         *)
(* The realtime database node partApplications is the variable apps, the    *)
(* storage bucket root is the variable blobs.  Every await of a handler is  *)
(* one step of the client that runs it, so the steps of several browsers    *)
(* interleave at exactly the places where the code yields.                  *)
(***************************************************************************)
EXTENDS Integers, Sequences, FiniteSets, TLC

\* ------------------------------------------------------------------ bounds

\* Identifiers APP0001 .. APP000<MaxApps> can be generated.
MaxApps == 2

\* Handler invocations (handleSubmit, handleApprove) over all clients.
MaxFlows == 3

\* The browsers that have the page open.
Clients == {"c1", "c2"}

\* Image files a user can attach.
Contents == {"imgA", "imgB"}

\* The photo each user has taken.
FileOf(c) == IF c = "c1" THEN "imgA" ELSE "imgB"

\* ------------------------------------------------------------------- text

\* One decimal digit as a character.
DigitChar(d) ==
  CASE d = 0 -> "0" [] d = 1 -> "1" [] d = 2 -> "2" [] d = 3 -> "3" [] d = 4 -> "4"
    [] d = 5 -> "5" [] d = 6 -> "6" [] d = 7 -> "7" [] d = 8 -> "8" [] d = 9 -> "9"

RECURSIVE toString(_)
\* Number.prototype.toString for a natural number, as a sequence of characters.
toString(n) ==
  IF n < 10 THEN <<DigitChar(n)>> ELSE toString(n \div 10) \o <<DigitChar(n % 10)>>

RECURSIVE padStart(_, _, _)
\* String.prototype.padStart: pad on the left up to targetLength, never truncate.
padStart(s, targetLength, padChar) ==
  IF Len(s) >= targetLength THEN s ELSE padStart(<<padChar>> \o s, targetLength, padChar)

RECURSIVE Join(_)
\* The string spelled by a sequence of characters.
Join(s) == IF s = <<>> THEN "" ELSE Head(s) \o Join(Tail(s))

WhiteSpace == {" "}

RECURSIVE trimStart(_)
trimStart(s) ==
  IF s # <<>> /\ Head(s) \in WhiteSpace THEN trimStart(Tail(s)) ELSE s

RECURSIVE trimEnd(_)
trimEnd(s) ==
  IF s # <<>> /\ s[Len(s)] \in WhiteSpace THEN trimEnd(SubSeq(s, 1, Len(s) - 1)) ELSE s

\* String.prototype.trim on a sequence of characters.
trim(s) == trimEnd(trimStart(s))

\* `APP${nextNumber.toString().padStart(4, '0')}` with nextNumber = applications.length + 1
generateApplicationId(applicationsLength) ==
  "APP" \o Join(padStart(toString(applicationsLength + 1), 4, "0"))

AppIds == {generateApplicationId(n) : n \in 0..(MaxApps - 1)}

\* What a user can type into the part code input of the approve dialog.
TypedCodes ==
  { <<>>, <<" ">>, <<" ", "P", "1", " ">>, <<"P", "2">>,
    <<"A", "P", "P", "0", "0", "0", "1">> }

PartCodes == {Join(trim(t)) : t \in TypedCodes} \ {""}

\* The partCode arguments a direct caller of the service passes, spelled out.
ApiTyped == { <<>>, <<" ">>, <<"P", "1">>, <<"A", "P", "P", "0", "0", "0", "1">> }

ApiCodes == {Join(t) : t \in ApiTyped}

\* The part codes that are empty or white space only.
BlankCodes == {Join(t) : t \in {u \in ApiTyped \cup TypedCodes : trim(u) = <<>>}}

\* storageRef(storage, name + '.png'): the object path in the bucket root.
StorageKey(name) == name \o ".png"

Keys == {StorageKey(n) : n \in AppIds \cup PartCodes \cup ApiCodes}

\* The download URL the storage service issues for an object path.
DownloadURL(key) == "https://storage/o/" \o key \o "?alt=media"

\* The object a download URL addresses.
KeyOfURL(url) == CHOOSE k \in Keys : DownloadURL(k) = url

\* The body a fetch gets for an object that is not there (resp.ok is false).
NotFoundBody == "body404"

\* { ...a, ...b }: b's own fields replace a's, a's other fields are kept.
Spread(a, b) ==
  [k \in (DOMAIN a) \cup (DOMAIN b) |-> IF k \in DOMAIN b THEN b[k] ELSE a[k]]

\* ------------------------------------------------------------------ state

VARIABLES
  apps,          \* database node partApplications: id -> stored record
  blobs,         \* storage bucket root: object path -> bytes
  applications,  \* per client: the list loaded by loadApplications (id -> record)
  formData,      \* per client: the application form
  selectedFile,  \* per client: the attached image file, or NoFile
  isSubmitting,  \* per client
  message,       \* per client: the banner shown by showMessage
  approveDialog, \* per client: the record the approve dialog is open for
  partCode,      \* per client: the part code input, as typed
  pc,            \* per client: the await the running handler is suspended at
  frame,         \* per client: the locals of the running handler and service call
  ret,           \* per client: how the last service call of the flow settled
  srcAtStart,    \* per client: bytes under the application's key when handleApprove began
  flows,         \* handler invocations and direct service calls so far
  baseVal,       \* database node material_summary_2025, in iteration order
  adminVal,      \* database node Parts (the admin overrides), in iteration order
  bomVal,        \* database node BoM: model -> its components subtree
  ticketsVal,    \* database node PartApplications: the pushed tickets, oldest first
  searchTerm,    \* the searchTerm argument of searchParts
  limit,         \* the limit argument of searchParts
  result,        \* what the last call of the parts repository returned
  pdf,           \* the document generateApplicationPDF builds, with the renderer's locals
  photo          \* the Take Photo page: its state hooks and its running handler

page == <<applications, formData, selectedFile, isSubmitting, message, approveDialog, partCode>>

\* The state of the application workflow, and that of the parts repository.
workflow ==
  <<apps, blobs, applications, formData, selectedFile, isSubmitting, message,
    approveDialog, partCode, pc, frame, ret, srcAtStart, flows>>

\* What the calls of the parts repository read: the datasets and the arguments.
inputs == <<baseVal, adminVal, bomVal, ticketsVal, searchTerm, limit>>

catalogue == <<inputs, result>>

\* The document renderer and the Take Photo page.
tools == <<pdf, photo>>

vars == <<workflow, catalogue, tools>>

NoFile == "nofile"
NoBlobBytes == "nobytes"
NoData == <<>>
NoApplication == <<>>
NoMessage == [type |-> "none"]
NoRet == [op |-> "none", outcome |-> "none", failed |-> "none"]
NoResult == [op |-> "none", faulted |-> FALSE, outcome |-> "none", value |-> <<>>]
Undefined == "undefined"

RequiredFields == {"requestedBy", "department", "specifications", "supplier", "standardPrice"}

\* useState initial value of formData, and resetForm
BlankForm ==
  [requestedBy |-> "", department |-> "", priority |-> "medium", specifications |-> "",
   supplier |-> "", standardPrice |-> "", notes |-> ""]

\* The form with every required field filled in.
FilledForm ==
  [requestedBy |-> "v", department |-> "v", priority |-> "medium", specifications |-> "v",
   supplier |-> "v", standardPrice |-> "v", notes |-> ""]

NoFrame ==
  [applicationId |-> "", code |-> "", url |-> "", blob |-> NoBlobBytes,
   currentData |-> NoData, application |-> NoApplication, caller |-> "none",
   op |-> "", material |-> <<>>, updates |-> <<>>]

\* A write that leaves what is already stored under the key alone.
PutIfAbsent(f, k, v) == [x \in (DOMAIN f) \cup {k} |-> IF x \in DOMAIN f THEN f[x] ELSE v]

\* f with key k bound to v (set(ref, v), uploadBytes(ref, v))
Put(f, k, v) == [x \in (DOMAIN f) \cup {k} |-> IF x = k THEN v ELSE f[x]]

\* f without key k (deleteObject(ref))
Remove(f, k) == [x \in (DOMAIN f) \ {k} |-> f[x]]

\* rec.k, undefined when rec has no such field
Field(rec, k) == IF k \in DOMAIN rec THEN rec[k] ELSE Undefined

\* JavaScript truthiness of a string-valued field
Truthy(v) == v \notin {Undefined, ""}

\* The bytes stored under a key, NoBlobBytes when there is no such object.
BytesAt(key) == IF key \in DOMAIN blobs THEN blobs[key] ELSE NoBlobBytes

\* The object savePartApplication writes: a fixed list of the application's fields.
savePartApplicationRecord(application) ==
  [requestedBy |-> application.requestedBy,
   department |-> application.department,
   priority |-> application.priority,
   specifications |-> application.specifications,
   supplier |-> application.supplier,
   standardPrice |-> application.standardPrice,
   notes |-> application.notes,
   submittedAt |-> application.submittedAt,
   status |-> application.status,
   imageUrl |-> application.imageUrl]

\* newApplication that keeps no image URL.
newApplicationNoUrl(form, applicationId, imageUrl) ==
  Spread(form, [id |-> applicationId, submittedAt |-> "now", status |-> "pending",
                imageUrl |-> ""])

\* newApplication of handleSubmit
newApplication(form, applicationId, imageUrl) ==
  Spread(form, [id |-> applicationId, submittedAt |-> "now", status |-> "pending",
                imageUrl |-> imageUrl])

\* The stores after one successful submit of file by a client whose list was empty.
StoresAfterSubmit(file) ==
  [apps |-> Put(<<>>, generateApplicationId(0),
                savePartApplicationRecord(
                  newApplication(FilledForm, generateApplicationId(0),
                                 DownloadURL(StorageKey(generateApplicationId(0)))))),
   blobs |-> Put(<<>>, StorageKey(generateApplicationId(0)), file)]

\* The stores when the clients open the page: empty, or holding one application
\* submitted earlier.
InitialStores == {[apps |-> <<>>, blobs |-> <<>>], StoresAfterSubmit("imgA")}

\* No document has been generated yet.
NoDocument ==
  [pc |-> "idle", application |-> <<>>, page |-> 0, yPosition |-> 0, content |-> <<>>,
   imageUrls |-> <<>>, index |-> 0, requests |-> <<>>, imageLoaded |-> <<>>, saved |-> ""]

\* The useState initial values of TakePhotoPage, no handler running.
NoPhoto ==
  [selectedFile |-> NoFile, imagePreview |-> NoFile, partCode |-> <<>>,
   isUploading |-> FALSE, message |-> NoMessage, pc |-> "idle", reading |-> NoFile,
   file |-> NoFile, code |-> ""]

\* No document has been generated and the Take Photo page is as it opens.
ToolsIdle ==
  /\ pdf = NoDocument
  /\ photo = NoPhoto

\* No call of the parts repository has been made, on empty datasets.
CatalogueIdle ==
  /\ baseVal = <<>>
  /\ adminVal = <<>>
  /\ bomVal = <<>>
  /\ ticketsVal = <<>>
  /\ searchTerm = <<>>
  /\ limit = 0
  /\ result = NoResult
  /\ ToolsIdle

Init ==
  /\ CatalogueIdle
  /\ \E st \in InitialStores : apps = st.apps /\ blobs = st.blobs
  /\ applications = [c \in Clients |-> <<>>]
  /\ formData = [c \in Clients |-> BlankForm]
  /\ selectedFile = [c \in Clients |-> NoFile]
  /\ isSubmitting = [c \in Clients |-> FALSE]
  /\ message = [c \in Clients |-> NoMessage]
  /\ approveDialog = [c \in Clients |-> NoApplication]
  /\ partCode = [c \in Clients |-> <<>>]
  /\ pc = [c \in Clients |-> "idle"]
  /\ frame = [c \in Clients |-> NoFrame]
  /\ ret = [c \in Clients |-> NoRet]
  /\ srcAtStart = [c \in Clients |-> NoBlobBytes]
  /\ flows = 0

\* ------------------------------------------------- page state and its inputs

\* No page is showing the banner of a handler that has just finished.  The banner's
\* timer and the dialog's Cancel button touch nothing but that page's own state, which
\* no handler reads, so they commute with every step of the other clients: they run
\* first.
Quiet == \A d \in Clients : pc[d] # "done"

\* getPartApplications: Object.keys(data).map(key => ({ id: key, ...data[key] })),
\* and [] when the read fails.
getPartApplications(ok) ==
  IF ok THEN [i \in DOMAIN apps |-> Spread([id |-> i], apps[i])] ELSE <<>>

\* loadApplications as the mount effect runs it (the page is opened or reloaded).
loadApplications(c) ==
  /\ Quiet
  /\ UNCHANGED <<catalogue, tools>>
  /\ pc[c] = "idle"
  /\ \E ok \in BOOLEAN :
       applications' = [applications EXCEPT ![c] = getPartApplications(ok)]
  /\ UNCHANGED <<apps, blobs, formData, selectedFile, isSubmitting, message, approveDialog,
                 partCode, pc, frame, ret, srcAtStart, flows>>

\* setTimeout(() => setMessage(null), 5000): the banner of the finished handler goes
\* away.  No handler reads message, so the page takes its next input after that; a
\* failed approve leaves the dialog open, and the user closes it (Cancel).
DismissMessage(c) ==
  /\ pc[c] = "done"
  /\ UNCHANGED <<catalogue, tools>>
  /\ pc' = [pc EXCEPT ![c] = "idle"]
  /\ message' = [message EXCEPT ![c] = NoMessage]
  /\ approveDialog' = [approveDialog EXCEPT ![c] = NoApplication]
  /\ partCode' = [partCode EXCEPT ![c] = <<>>]
  /\ ret' = [ret EXCEPT ![c] = NoRet]
  /\ UNCHANGED <<apps, blobs, applications, formData, selectedFile, isSubmitting, frame,
                 srcAtStart, flows>>

\* --------------------------------------------------------- service calls

ErrorMessage(text) == [type |-> "error", text |-> text]

\* What the catch block of the caller shows when a service call it awaits threw.
CatchMessage(caller, old) ==
  CASE caller = "handleSubmit" -> ErrorMessage("Failed to submit part application")
    [] caller = "handleApprove" -> ErrorMessage("Failed to approve application")
    [] OTHER -> old

\* How a service call made directly settled; a handler keeps no such value, what it
\* does next tells.
Settled(c, op, outcome) ==
  IF frame[c].caller = "direct"
  THEN [op |-> op, outcome |-> outcome, failed |-> "none"]
  ELSE ret[c]

\* The frame of client c when a service call has returned to it.
FrameAfterCall(c) == IF frame[c].caller = "direct" THEN NoFrame ELSE frame[c]

\* The catch block of a service call logs and returns.
serviceCatchSwallows == "returned"

\* catch (error) { console.error(...); throw error; }: how a service call whose
\* remote call failed settles.
serviceCatch == "threw"

\* Service call op of client c failed at remote call step: the service logs and
\* rethrows, and the awaiting handler's catch and finally blocks run.
Threw(c, op, step) ==
  /\ pc' = [pc EXCEPT ![c] = "done"]
  /\ isSubmitting' = [isSubmitting EXCEPT ![c] = FALSE]
  /\ frame' = [frame EXCEPT ![c] = NoFrame]
  /\ ret' = [ret EXCEPT ![c] =
                IF frame[c].caller = "direct"
                THEN [op |-> op, outcome |-> serviceCatch, failed |-> step]
                ELSE ret[c]]
  /\ message' = [message EXCEPT ![c] = CatchMessage(frame[c].caller, @)]
  /\ srcAtStart' = [srcAtStart EXCEPT ![c] = NoBlobBytes]
  /\ UNCHANGED <<apps, blobs, applications, formData, selectedFile, approveDialog, partCode,
                 flows>>

\* ------------------------------------------------------------- handleSubmit

\* The user brings the form to `form` (the inputs' onChange: setFormData) and the
\* attachment to `file` (handleFileSelect: setSelectedFile), and submits: handleSubmit
\* up to its first await, that is the validation, setIsSubmitting(true) and
\* generateApplicationId().
\* validationError without its second test: a submit that does not ask for the image.
validationErrorFieldsOnly(form, file) ==
  IF \E f \in RequiredFields : form[f] = ""
  THEN "Please fill in all required fields"
  ELSE ""

\* The validation handleSubmit begins with: the text of the error it shows, "" when
\* the form passes.
validationError(form, file) ==
  IF \E f \in RequiredFields : form[f] = ""
  THEN "Please fill in all required fields"
  ELSE IF file = NoFile THEN "Please upload an image" ELSE ""

handleSubmit(c, form, file) ==
  /\ Quiet
  /\ UNCHANGED <<catalogue, tools>>
  /\ pc[c] = "idle"
  /\ formData' = [formData EXCEPT ![c] = form]
  /\ selectedFile' = [selectedFile EXCEPT ![c] = file]
  /\ IF validationError(form, file) # ""
     THEN /\ message' = [message EXCEPT ![c] = ErrorMessage(validationError(form, file))]
          /\ pc' = [pc EXCEPT ![c] = "done"]
          /\ UNCHANGED <<isSubmitting, frame, ret, flows>>
     ELSE /\ flows < MaxFlows
          /\ Cardinality(DOMAIN applications[c]) < MaxApps
          /\ flows' = flows + 1
          /\ isSubmitting' = [isSubmitting EXCEPT ![c] = TRUE]
          /\ frame' = [frame EXCEPT ![c] =
                 [NoFrame EXCEPT
                    !.applicationId = generateApplicationId(Cardinality(DOMAIN applications[c])),
                    !.caller = "handleSubmit"]]
          /\ pc' = [pc EXCEPT ![c] = "sub_upload"]
          /\ ret' = [ret EXCEPT ![c] = NoRet]
          /\ UNCHANGED message
  /\ UNCHANGED <<apps, blobs, applications, approveDialog, partCode, srcAtStart>>

\* uploadPartApplicationImage: await uploadBytes(imageRef, file)
SubmitUpload(c) ==
  /\ Quiet
  /\ UNCHANGED <<catalogue, tools>>
  /\ pc[c] = "sub_upload"
  /\ \E ok \in BOOLEAN :
       IF ok
       THEN /\ blobs' = Put(blobs, StorageKey(frame[c].applicationId), selectedFile[c])
            /\ pc' = [pc EXCEPT ![c] = "sub_url"]
            /\ UNCHANGED <<apps, applications, formData, selectedFile, isSubmitting, message,
                           approveDialog, partCode, frame, ret, srcAtStart,
                           flows>>
       ELSE Threw(c, "uploadPartApplicationImage", "uploadBytes")

\* uploadPartApplicationImage: await getDownloadURL(snapshot.ref); return downloadURL;
\* and handleSubmit's const newApplication = { ...formData, id, submittedAt, status, imageUrl }
SubmitUrl(c) ==
  /\ Quiet
  /\ UNCHANGED <<catalogue, tools>>
  /\ pc[c] = "sub_url"
  /\ \E ok \in BOOLEAN :
       IF ok /\ StorageKey(frame[c].applicationId) \in DOMAIN blobs
       THEN /\ frame' = [frame EXCEPT ![c].application =
                           newApplication(formData[c], frame[c].applicationId,
                                          DownloadURL(StorageKey(frame[c].applicationId)))]
            /\ ret' = [ret EXCEPT ![c] = Settled(c, "uploadPartApplicationImage", "returned")]
            /\ pc' = [pc EXCEPT ![c] = "sub_save"]
            /\ UNCHANGED <<apps, blobs, applications, formData, selectedFile, isSubmitting,
                           message, approveDialog, partCode, srcAtStart, flows>>
       ELSE Threw(c, "uploadPartApplicationImage", "getDownloadURL")

\* savePartApplication: await set(ref(database, 'partApplications/' + application.id), ...)
SubmitSave(c) ==
  /\ Quiet
  /\ UNCHANGED <<catalogue, tools>>
  /\ pc[c] = "sub_save"
  /\ \E ok \in BOOLEAN :
       IF ok
       THEN /\ apps' = Put(apps, frame[c].application.id,
                           savePartApplicationRecord(frame[c].application))
            /\ ret' = [ret EXCEPT ![c] = Settled(c, "savePartApplication", "returned")]
            /\ pc' = [pc EXCEPT ![c] = IF frame[c].caller = "direct" THEN "done" ELSE "sub_load"]
            /\ frame' = [frame EXCEPT ![c] = FrameAfterCall(c)]
            /\ UNCHANGED <<blobs, applications, formData, selectedFile, isSubmitting, message,
                           approveDialog, partCode, srcAtStart, flows>>
       ELSE Threw(c, "savePartApplication", "set")

\* await loadApplications(); showMessage('success', ...); resetForm(); finally
SubmitLoad(c) ==
  /\ Quiet
  /\ UNCHANGED <<catalogue, tools>>
  /\ pc[c] = "sub_load"
  /\ \E ok \in BOOLEAN :
       /\ applications' = [applications EXCEPT ![c] = getPartApplications(ok)]
  /\ message' = [message EXCEPT ![c] =
       [type |-> "success", text |-> "Part application submitted successfully!"]]
  /\ formData' = [formData EXCEPT ![c] = BlankForm]
  /\ selectedFile' = [selectedFile EXCEPT ![c] = NoFile]
  /\ isSubmitting' = [isSubmitting EXCEPT ![c] = FALSE]
  /\ pc' = [pc EXCEPT ![c] = "done"]
  /\ frame' = [frame EXCEPT ![c] = NoFrame]
  /\ UNCHANGED <<apps, blobs, approveDialog, partCode, ret, srcAtStart, flows>>

\* ------------------------------------------------------------ handleApprove

\* The user opens the approve dialog of listed application i (the button is shown
\* while app.status === 'pending'): setApproveDialog({ open: true, application: app });
\* types `typed` into the part code input: setPartCode; and clicks Approve:
\* handleApprove up to its first await, that is the guard, setIsSubmitting(true) and
\* the call of approvePartApplication with partCode.trim().
\* approveGuard without the trim: white space counts as a part code.
approveGuardNoTrim(application, typed) ==
  application = NoApplication \/ typed = <<>>

\* The guard handleApprove begins with: !approveDialog.application || !partCode.trim()
approveGuard(application, typed) ==
  application = NoApplication \/ trim(typed) = <<>>

handleApprove(c, i, typed) ==
  /\ Quiet
  /\ UNCHANGED <<catalogue, tools>>
  /\ pc[c] = "idle"
  /\ i \in DOMAIN applications[c]
  /\ Field(applications[c][i], "status") = "pending"
  /\ approveDialog' = [approveDialog EXCEPT ![c] = applications[c][i]]
  /\ partCode' = [partCode EXCEPT ![c] = typed]
  /\ IF approveGuard(approveDialog'[c], typed)
     THEN /\ message' = [message EXCEPT ![c] = ErrorMessage("Please enter a part code")]
          /\ pc' = [pc EXCEPT ![c] = "done"]
          /\ UNCHANGED <<isSubmitting, frame, ret, srcAtStart, flows>>
     ELSE /\ flows < MaxFlows
          /\ flows' = flows + 1
          /\ isSubmitting' = [isSubmitting EXCEPT ![c] = TRUE]
          /\ frame' = [frame EXCEPT ![c] =
                 [NoFrame EXCEPT !.applicationId = approveDialog'[c].id,
                                 !.code = Join(trim(typed)),
                                 !.caller = "handleApprove"]]
          /\ pc' = [pc EXCEPT ![c] = "apv_get"]
          /\ ret' = [ret EXCEPT ![c] = NoRet]
          /\ srcAtStart' = [srcAtStart EXCEPT ![c] = BytesAt(StorageKey(approveDialog'[c].id))]
          /\ UNCHANGED message
  /\ UNCHANGED <<apps, blobs, applications, formData, selectedFile>>

\* Where client c goes on when approvePartApplication has returned: handleApprove
\* calls renamePartApplicationImage if the dialog's record has an imageUrl and
\* loadApplications otherwise; a direct caller is done.
AfterApprove(c) ==
  CASE frame[c].caller = "handleApprove" ->
         IF Truthy(Field(approveDialog[c], "imageUrl")) THEN "rn_url" ELSE "app_load"
    [] OTHER -> "done"

\* approvePartApplication: const snapshot = await get(appRef); if (snapshot.exists())
ApproveGet(c) ==
  /\ Quiet
  /\ UNCHANGED <<catalogue, tools>>
  /\ pc[c] = "apv_get"
  /\ \E ok \in BOOLEAN :
       IF ok
       THEN /\ IF frame[c].applicationId \in DOMAIN apps
               THEN /\ frame' = [frame EXCEPT ![c].currentData = apps[frame[c].applicationId]]
                    /\ pc' = [pc EXCEPT ![c] = "apv_set"]
                    /\ UNCHANGED ret
               ELSE /\ frame' = [frame EXCEPT ![c] = FrameAfterCall(c)]
                    /\ pc' = [pc EXCEPT ![c] = AfterApprove(c)]
                    /\ ret' = [ret EXCEPT ![c] = Settled(c, "approvePartApplication", "returned")]
            /\ UNCHANGED <<apps, blobs, applications, formData, selectedFile, isSubmitting,
                           message, approveDialog, partCode, srcAtStart,
                           flows>>
       ELSE Threw(c, "approvePartApplication", "get")

\* approveUpdates without the partCode field.
approveUpdatesStatusOnly(currentData, code) ==
  Spread(currentData, [status |-> "approved", approvedAt |-> "now"])

\* The object approvePartApplication writes back.
approveUpdates(currentData, code) ==
  Spread(currentData, [status |-> "approved", partCode |-> code, approvedAt |-> "now"])

\* approvePartApplication: await set(appRef, updates)
ApproveSet(c) ==
  /\ Quiet
  /\ UNCHANGED <<catalogue, tools>>
  /\ pc[c] = "apv_set"
  /\ \E ok \in BOOLEAN :
       IF ok
       THEN /\ apps' = Put(apps, frame[c].applicationId,
                           approveUpdates(frame[c].currentData, frame[c].code))
            /\ frame' = [frame EXCEPT ![c] =
                           IF frame[c].caller = "direct" THEN NoFrame
                           ELSE [frame[c] EXCEPT !.currentData = NoData]]
            /\ pc' = [pc EXCEPT ![c] = AfterApprove(c)]
            /\ ret' = [ret EXCEPT ![c] = Settled(c, "approvePartApplication", "returned")]
            /\ UNCHANGED <<blobs, applications, formData, selectedFile, isSubmitting, message,
                           approveDialog, partCode, srcAtStart, flows>>
       ELSE Threw(c, "approvePartApplication", "set")

\* ----------------------------------------------- renamePartApplicationImage

\* oldRef and newRef of renamePartApplicationImage
oldKey(c) == StorageKey(frame[c].applicationId)
newKey(c) == StorageKey(frame[c].code)

\* const oldUrl = await getDownloadURL(oldRef)
RenameUrl(c) ==
  /\ Quiet
  /\ UNCHANGED <<catalogue, tools>>
  /\ pc[c] = "rn_url"
  /\ \E ok \in BOOLEAN :
       IF ok /\ oldKey(c) \in DOMAIN blobs
       THEN /\ frame' = [frame EXCEPT ![c].url = DownloadURL(oldKey(c))]
            /\ pc' = [pc EXCEPT ![c] = "rn_fetch"]
            /\ UNCHANGED <<apps, blobs, applications, formData, selectedFile, isSubmitting,
                           message, approveDialog, partCode, ret, srcAtStart, flows>>
       ELSE Threw(c, "renamePartApplicationImage", "getDownloadURL")

\* A fetch that gets the not-found body whatever the URL.
fetchBlobNotFound(url) == NotFoundBody

\* What fetch(url) followed by resp.blob() yields: the object's bytes, or the body of
\* the not-found response (resp.ok is not looked at).
fetchBlob(url) ==
  IF KeyOfURL(url) \in DOMAIN blobs THEN blobs[KeyOfURL(url)] ELSE NotFoundBody

\* const resp = await fetch(oldUrl); const blob = await resp.blob()
RenameFetch(c) ==
  /\ Quiet
  /\ UNCHANGED <<catalogue, tools>>
  /\ pc[c] = "rn_fetch"
  /\ \E ok \in BOOLEAN :
       IF ok
       THEN /\ frame' = [frame EXCEPT ![c].blob = fetchBlob(frame[c].url)]
            /\ pc' = [pc EXCEPT ![c] = "rn_upload"]
            /\ UNCHANGED <<apps, blobs, applications, formData, selectedFile, isSubmitting,
                           message, approveDialog, partCode, ret, srcAtStart, flows>>
       ELSE Threw(c, "renamePartApplicationImage", "fetch")

\* await uploadBytes(newRef, blob)
RenameUpload(c) ==
  /\ Quiet
  /\ UNCHANGED <<catalogue, tools>>
  /\ pc[c] = "rn_upload"
  /\ \E ok \in BOOLEAN :
       IF ok
       THEN /\ blobs' = Put(blobs, newKey(c), frame[c].blob)
            /\ pc' = [pc EXCEPT ![c] = "rn_delete"]
            /\ UNCHANGED <<apps, applications, formData, selectedFile, isSubmitting, message,
                           approveDialog, partCode, frame, ret, srcAtStart,
                           flows>>
       ELSE Threw(c, "renamePartApplicationImage", "uploadBytes")

\* deleteObject outside a try of its own: its failure ends the re-homing.
RenameDeleteRethrows(c) ==
  /\ Quiet
  /\ UNCHANGED <<catalogue, tools>>
  /\ pc[c] = "rn_delete"
  /\ \E ok \in BOOLEAN :
       IF ok /\ oldKey(c) \in DOMAIN blobs
       THEN /\ blobs' = Remove(blobs, oldKey(c))
            /\ pc' = [pc EXCEPT ![c] = "rn_newurl"]
            /\ UNCHANGED <<apps, applications, formData, selectedFile, isSubmitting, message,
                           approveDialog, partCode, frame, ret, srcAtStart, flows>>
       ELSE Threw(c, "renamePartApplicationImage", "deleteObject")

\* try { await deleteObject(oldRef); } catch (_) {}
RenameDelete(c) ==
  /\ Quiet
  /\ UNCHANGED <<catalogue, tools>>
  /\ pc[c] = "rn_delete"
  /\ \E ok \in BOOLEAN :
       IF ok /\ oldKey(c) \in DOMAIN blobs
       THEN blobs' = Remove(blobs, oldKey(c))
       ELSE UNCHANGED blobs
  /\ pc' = [pc EXCEPT ![c] = "rn_newurl"]
  /\ UNCHANGED <<apps, applications, formData, selectedFile, isSubmitting, message,
                 approveDialog, partCode, frame, ret, srcAtStart, flows>>

\* const newUrl = await getDownloadURL(newRef)
RenameNewUrl(c) ==
  /\ Quiet
  /\ UNCHANGED <<catalogue, tools>>
  /\ pc[c] = "rn_newurl"
  /\ \E ok \in BOOLEAN :
       IF ok /\ newKey(c) \in DOMAIN blobs
       THEN /\ frame' = [frame EXCEPT ![c].url = DownloadURL(newKey(c))]
            /\ pc' = [pc EXCEPT ![c] = "rn_get"]
            /\ UNCHANGED <<apps, blobs, applications, formData, selectedFile, isSubmitting,
                           message, approveDialog, partCode, ret, srcAtStart, flows>>
       ELSE Threw(c, "renamePartApplicationImage", "getDownloadURL")

\* const snap = await get(appRef)
RenameGet(c) ==
  /\ Quiet
  /\ UNCHANGED <<catalogue, tools>>
  /\ pc[c] = "rn_get"
  /\ \E ok \in BOOLEAN :
       IF ok
       THEN /\ frame' = [frame EXCEPT ![c].currentData =
                           IF frame[c].applicationId \in DOMAIN apps
                           THEN apps[frame[c].applicationId] ELSE NoData]
            /\ pc' = [pc EXCEPT ![c] = "rn_set"]
            /\ UNCHANGED <<apps, blobs, applications, formData, selectedFile, isSubmitting,
                           message, approveDialog, partCode, ret, srcAtStart, flows>>
       ELSE Threw(c, "renamePartApplicationImage", "get")

\* renameUpdates that writes the record back as it was read.
renameUpdatesKeepsUrl(current, newUrl) ==
  IF current # NoData THEN current ELSE [imageUrl |-> newUrl]

\* The object renamePartApplicationImage writes: { ...current, imageUrl: newUrl } when
\* the record exists, { imageUrl: newUrl } when it does not.
renameUpdates(current, newUrl) ==
  IF current # NoData THEN Spread(current, [imageUrl |-> newUrl]) ELSE [imageUrl |-> newUrl]

\* await set(appRef, ...), and the return to the caller
RenameSet(c) ==
  /\ Quiet
  /\ UNCHANGED <<catalogue, tools>>
  /\ pc[c] = "rn_set"
  /\ \E ok \in BOOLEAN :
       IF ok
       THEN /\ apps' = Put(apps, frame[c].applicationId,
                           renameUpdates(frame[c].currentData, frame[c].url))
            /\ frame' = [frame EXCEPT ![c] =
                           IF frame[c].caller = "direct" THEN NoFrame
                           ELSE [frame[c] EXCEPT !.currentData = NoData, !.url = "",
                                                 !.blob = NoBlobBytes]]
            /\ pc' = [pc EXCEPT ![c] = IF frame[c].caller = "direct" THEN "done" ELSE "app_load"]
            /\ ret' = [ret EXCEPT ![c] = Settled(c, "renamePartApplicationImage", "returned")]
            /\ UNCHANGED <<blobs, applications, formData, selectedFile, isSubmitting, message,
                           approveDialog, partCode, srcAtStart, flows>>
       ELSE Threw(c, "renamePartApplicationImage", "set")

\* handleApprove after the service calls: await loadApplications(); showMessage('success',
\* ...); setApproveDialog({ open: false, application: null }); setPartCode(''); finally
ApproveLoad(c) ==
  /\ Quiet
  /\ UNCHANGED <<catalogue, tools>>
  /\ pc[c] = "app_load"
  /\ \E ok \in BOOLEAN :
       /\ applications' = [applications EXCEPT ![c] = getPartApplications(ok)]
  /\ message' = [message EXCEPT ![c] =
       [type |-> "success", text |-> "Application approved with part code"]]
  /\ approveDialog' = [approveDialog EXCEPT ![c] = NoApplication]
  /\ partCode' = [partCode EXCEPT ![c] = <<>>]
  /\ isSubmitting' = [isSubmitting EXCEPT ![c] = FALSE]
  /\ pc' = [pc EXCEPT ![c] = "done"]
  /\ frame' = [frame EXCEPT ![c] = NoFrame]
  /\ srcAtStart' = [srcAtStart EXCEPT ![c] = NoBlobBytes]
  /\ UNCHANGED <<apps, blobs, formData, selectedFile, ret, flows>>

\* ------------------------------------------------- the service, called directly

\* A caller other than the page (a script, a console) calls
\* FirebaseService.savePartApplication(application) and awaits it.
savePartApplication(c, application) ==
  /\ Quiet
  /\ UNCHANGED <<catalogue, tools>>
  /\ pc[c] = "idle"
  /\ flows < MaxFlows
  /\ flows' = flows + 1
  /\ frame' = [frame EXCEPT ![c] =
         [NoFrame EXCEPT !.applicationId = application.id, !.application = application,
                         !.caller = "direct"]]
  /\ pc' = [pc EXCEPT ![c] = "sub_save"]
  /\ ret' = [ret EXCEPT ![c] = NoRet]
  /\ UNCHANGED <<apps, blobs, page, srcAtStart>>

\* FirebaseService.approvePartApplication(applicationId, code), called directly.
approvePartApplication(c, applicationId, code) ==
  /\ Quiet
  /\ UNCHANGED <<catalogue, tools>>
  /\ pc[c] = "idle"
  /\ flows < MaxFlows
  /\ flows' = flows + 1
  /\ frame' = [frame EXCEPT ![c] =
         [NoFrame EXCEPT !.applicationId = applicationId, !.code = code,
                         !.caller = "direct"]]
  /\ pc' = [pc EXCEPT ![c] = "apv_get"]
  /\ ret' = [ret EXCEPT ![c] = NoRet]
  /\ UNCHANGED <<apps, blobs, page, srcAtStart>>

\* FirebaseService.renamePartApplicationImage(applicationId, code), called directly.
renamePartApplicationImage(c, applicationId, code) ==
  /\ Quiet
  /\ UNCHANGED <<catalogue, tools>>
  /\ pc[c] = "idle"
  /\ flows < MaxFlows
  /\ flows' = flows + 1
  /\ frame' = [frame EXCEPT ![c] =
         [NoFrame EXCEPT !.applicationId = applicationId, !.code = code,
                         !.caller = "direct"]]
  /\ pc' = [pc EXCEPT ![c] = "rn_url"]
  /\ ret' = [ret EXCEPT ![c] = NoRet]
  /\ srcAtStart' = [srcAtStart EXCEPT ![c] = BytesAt(StorageKey(applicationId))]
  /\ UNCHANGED <<apps, blobs, page>>

\* ------------------------------------------------------------ specification

\* What a user submits: the untouched form, or the completed form with the photo.
SubmitInputs(c) ==
  {[form |-> BlankForm, file |-> NoFile], [form |-> FilledForm, file |-> FileOf(c)]}

ClientStep(c) ==
  \/ loadApplications(c)
  \/ DismissMessage(c)
  \/ \E in \in SubmitInputs(c) : handleSubmit(c, in.form, in.file)
  \/ SubmitUpload(c)
  \/ SubmitUrl(c)
  \/ SubmitSave(c)
  \/ SubmitLoad(c)
  \/ \E i \in AppIds, typed \in TypedCodes : handleApprove(c, i, typed)
  \/ ApproveGet(c)
  \/ ApproveSet(c)
  \/ RenameUrl(c)
  \/ RenameFetch(c)
  \/ RenameUpload(c)
  \/ RenameDelete(c)
  \/ RenameNewUrl(c)
  \/ RenameGet(c)
  \/ RenameSet(c)
  \/ ApproveLoad(c)

Next == \E c \in Clients : ClientStep(c)

\* Several browsers on the application page.
Spec == Init /\ [][Next]_vars

\* Every way the form can stand when the user submits it.
Forms ==
  {Spread(BlankForm, f) : f \in [RequiredFields -> {"", "v"}]}

Files == {NoFile} \cup Contents

\* One browser, its user submitting the form however it stands.
FormStep(c) ==
  \/ loadApplications(c)
  \/ DismissMessage(c)
  \/ \E form \in Forms, file \in Files : handleSubmit(c, form, file)
  \/ SubmitUpload(c)
  \/ SubmitUrl(c)
  \/ SubmitSave(c)
  \/ SubmitLoad(c)

NextForm == FormStep("c1")

SpecForm == Init /\ [][NextForm]_vars

\* Several browsers on the page, their users submitting and reloading only.
SubmitStep(c) ==
  \/ loadApplications(c)
  \/ DismissMessage(c)
  \/ \E in \in SubmitInputs(c) : handleSubmit(c, in.form, in.file)
  \/ SubmitUpload(c)
  \/ SubmitUrl(c)
  \/ SubmitSave(c)
  \/ SubmitLoad(c)

NextSubmit == \E c \in Clients : SubmitStep(c)

SpecSubmit == Init /\ [][NextSubmit]_vars

\* The applications a direct caller saves: what handleSubmit builds for an id.
ApiApplications ==
  {newApplication(FilledForm, i, DownloadURL(StorageKey(i))) : i \in AppIds}

\* One browser on the page, and the service called directly from the same session.
ApiStep(c) ==
  \/ ClientStep(c)
  \/ \E application \in ApiApplications : savePartApplication(c, application)
  \/ \E i \in AppIds, code \in ApiCodes : approvePartApplication(c, i, code)
  \/ \E i \in AppIds, code \in ApiCodes : renamePartApplicationImage(c, i, code)

NextApi == ApiStep("c1")

SpecApi == Init /\ [][NextApi]_vars

\* ---------------------------------------------------------- parts repository

\* Entries a dataset can hold, characters a search term can have, and the largest
\* limit a caller passes.
MaxParts == 2
MaxOverrides == 1
MaxTerm == 2
MaxLimit == 2

Alphabet == {"a", "A", "b"}

\* Material codes, English descriptions and supplier names, spelled out.
Materials == { <<"A">>, <<"a", "b">>, <<"b">> }
Descriptions == { <<"A", "b">>, <<"b">> }
Suppliers == { <<"a">> }

\* A value of the database that is no object (a number, a string).
Scalar == [type |-> "number"]

\* The objects under a material code: any of SPRAS_EN and Supplier_Name may be absent.
PartFields ==
  UNION { [F -> Descriptions \cup Suppliers] : F \in SUBSET {"SPRAS_EN", "Supplier_Name"} }

Parts ==
  { [type |-> "object", fields |-> f] :
      f \in { g \in PartFields :
                /\ "SPRAS_EN" \in DOMAIN g => g["SPRAS_EN"] \in Descriptions
                /\ "Supplier_Name" \in DOMAIN g => g["Supplier_Name"] \in Suppliers } }

\* function isRecord(value): typeof value === 'object' && value !== null && !Array.isArray(value)
isRecord(value) == value.type = "object"

\* The snapshots of at most n children, each child a material code with its value,
\* in the order Object.entries yields them.
Datasets(n) ==
  UNION { { d \in [1..k -> [material : Materials, part : Parts \cup {Scalar}]] :
              \A i, j \in 1..k : i # j => d[i].material # d[j].material } : k \in 0..n }

\* The children of a snapshot that are objects (baseParts, adminParts).
recordsOf(val) == SelectSeq(val, LAMBDA e : isRecord(e.part))

\* Where material stands in a mapping, 0 when it has no such key.
IndexOf(mapping, material) ==
  IF \E i \in 1..Len(mapping) : mapping[i].material = material
  THEN CHOOSE i \in 1..Len(mapping) : mapping[i].material = material
  ELSE 0

\* mergedPart with the spread the other way round: the base's fields win.
mergedPartBaseWins(current, overrides) ==
  [type |-> "object", fields |-> Spread(overrides.fields, current.fields)]

\* { ...(merged[material] ?? {}), ...overrides }
mergedPart(current, overrides) ==
  [type |-> "object", fields |-> Spread(current.fields, overrides.fields)]

\* merged[material] = { ...(merged[material] ?? {}), ...overrides }: an existing key
\* keeps its place, a new key goes last.
mergeEntry(merged, e) ==
  IF IndexOf(merged, e.material) # 0
  THEN [merged EXCEPT ![IndexOf(merged, e.material)].part = mergedPart(@, e.part)]
  ELSE Append(merged, [material |-> e.material,
                       part |-> mergedPart([type |-> "object", fields |-> <<>>], e.part)])

RECURSIVE mergeAll(_, _)
\* Object.entries(adminParts).forEach(([material, overrides]) => ...)
mergeAll(merged, adminParts) ==
  IF adminParts = <<>> THEN merged
  ELSE mergeAll(mergeEntry(merged, Head(adminParts)), Tail(adminParts))

\* getAllParts of the merging revision: const merged = { ...baseParts }, then the
\* overrides on top.
getAllPartsMerged(base, admin) == mergeAll(recordsOf(base), recordsOf(admin))

\* getAllParts of firebase.ts: snapshot.val() || {}, and {} when the read fails.
getAllParts(base, ok) == IF ok THEN base ELSE <<>>

\* One character in lower case.
toLowerChar(ch) == CASE ch = "A" -> "a" [] ch = "B" -> "b" [] OTHER -> ch

\* String.prototype.toLowerCase on a sequence of characters.
toLowerCase(s) == [i \in 1..Len(s) |-> toLowerChar(s[i])]

\* String.prototype.includes: t occurs in s as a run of consecutive characters.
includes(s, t) == \E i \in 0..(Len(s) - Len(t)) : SubSeq(s, i + 1, i + Len(t)) = t

\* (part.field || ''): the field's text, '' when the part has no such field.
fieldText(part, field) ==
  IF isRecord(part) /\ field \in DOMAIN part.fields THEN part.fields[field] ELSE <<>>

\* matchesMaterial || matchesDescription || matchesSupplier
matchesEntry(e, searchLower) ==
  \/ includes(toLowerCase(e.material), searchLower)
  \/ includes(toLowerCase(fieldText(e.part, "SPRAS_EN")), searchLower)
  \/ includes(toLowerCase(fieldText(e.part, "Supplier_Name")), searchLower)

\* limitReached off by one: one entry more is let through.
limitReachedLate(count, lim) == count > lim

\* if (count >= limit) return;
limitReached(count, lim) == count >= lim

RECURSIVE forEachPart(_, _, _, _, _)
\* Object.entries(allParts).forEach(([material, part]) => { ... }) with the filtered
\* mapping and the count it has built so far.
forEachPart(entries, searchLower, lim, filtered, count) ==
  IF entries = <<>> THEN filtered
  ELSE IF limitReached(count, lim)
       THEN forEachPart(Tail(entries), searchLower, lim, filtered, count)
       ELSE IF matchesEntry(Head(entries), searchLower)
            THEN forEachPart(Tail(entries), searchLower, lim,
                             Append(filtered, Head(entries)), count + 1)
            ELSE forEachPart(Tail(entries), searchLower, lim, filtered, count)

\* limitToFirst that does not cut: every child is returned.
limitToFirstUncut(base, lim) == IF lim > 0 THEN base ELSE <<>>

\* query(partsRef, limitToFirst(limit)): the first lim children; limitToFirst throws
\* unless lim is a positive integer.
limitToFirst(base, lim) ==
  IF lim > 0 THEN SubSeq(base, 1, IF lim < Len(base) THEN lim ELSE Len(base)) ELSE <<>>

\* searchParts of firebase.ts; ok tells whether its read of the database succeeds.
searchParts(base, term, lim, ok) ==
  IF term = <<>>
  THEN IF ok THEN limitToFirst(base, lim) ELSE <<>>
  ELSE forEachPart(getAllParts(base, ok), toLowerCase(term), lim, <<>>, 0)

\* The catch block of a read rethrows.
readCatchRethrows == "threw"

\* catch (error) { console.error(...); return {}; } (or [] or null): a read that
\* failed still returns to its caller.
readCatch == "returned"

\* How a read settles: it returns its value, or its catch block runs.
readOutcome(ok) == IF ok THEN "returned" ELSE readCatch

\* A caller awaits getAllParts() of the merging revision.
GetAllPartsMerged ==
  /\ result' = [op |-> "getAllPartsMerged", faulted |-> FALSE, outcome |-> "returned",
                value |-> getAllPartsMerged(baseVal, adminVal)]
  /\ UNCHANGED <<workflow, inputs, tools>>

\* A caller awaits getAllParts() of firebase.ts.
GetAllParts ==
  /\ \E ok \in BOOLEAN :
       result' = [op |-> "getAllParts", faulted |-> ~ok, outcome |-> readOutcome(ok),
                  value |-> getAllParts(baseVal, ok)]
  /\ UNCHANGED <<workflow, inputs, tools>>

\* A caller awaits searchParts(searchTerm, limit).
SearchParts ==
  /\ \E ok \in BOOLEAN :
       result' = [op |-> "searchParts", faulted |-> ~ok, outcome |-> readOutcome(ok),
                  value |-> searchParts(baseVal, searchTerm, limit, ok)]
  /\ UNCHANGED <<workflow, inputs, tools>>

\* Every client's page as nobody has touched it.
PagesIdle ==
  /\ applications = [c \in Clients |-> <<>>]
  /\ formData = [c \in Clients |-> BlankForm]
  /\ selectedFile = [c \in Clients |-> NoFile]
  /\ isSubmitting = [c \in Clients |-> FALSE]
  /\ message = [c \in Clients |-> NoMessage]
  /\ approveDialog = [c \in Clients |-> NoApplication]
  /\ partCode = [c \in Clients |-> <<>>]
  /\ pc = [c \in Clients |-> "idle"]
  /\ frame = [c \in Clients |-> NoFrame]
  /\ ret = [c \in Clients |-> NoRet]
  /\ srcAtStart = [c \in Clients |-> NoBlobBytes]
  /\ flows = 0

\* The pages as nobody has touched them, over an empty database and bucket.
WorkflowIdle ==
  /\ apps = <<>>
  /\ blobs = <<>>
  /\ PagesIdle

\* The search terms a caller passes: any text of at most MaxTerm characters.
Terms == UNION { [1..k -> Alphabet] : k \in 0..MaxTerm }

\* Any base dataset under any admin overrides.
InitMerge ==
  /\ WorkflowIdle
  /\ baseVal \in Datasets(MaxParts)
  /\ adminVal \in Datasets(MaxOverrides)
  /\ bomVal = <<>>
  /\ ticketsVal = <<>>
  /\ searchTerm = <<>>
  /\ limit = 0
  /\ result = NoResult
  /\ ToolsIdle

NextMerge == GetAllPartsMerged \/ GetAllParts

SpecMerge == InitMerge /\ [][NextMerge]_vars

\* Any base dataset, searched for any term under any limit.
InitSearch ==
  /\ WorkflowIdle
  /\ baseVal \in Datasets(MaxParts)
  /\ adminVal = <<>>
  /\ bomVal = <<>>
  /\ ticketsVal = <<>>
  /\ searchTerm \in Terms
  /\ limit \in 0..MaxLimit
  /\ result = NoResult
  /\ ToolsIdle

NextSearch == SearchParts \/ GetAllParts

SpecSearch == InitSearch /\ [][NextSearch]_vars

\* searchParts of the merging revision: the same filter, over what that revision's
\* getAllParts returns.
searchPartsMerged(base, admin, term, lim) ==
  IF term = <<>>
  THEN limitToFirst(base, lim)
  ELSE forEachPart(getAllPartsMerged(base, admin), toLowerCase(term), lim, <<>>, 0)

\* A caller awaits searchParts(searchTerm, limit) of the merging revision.
SearchPartsMerged ==
  /\ result' = [op |-> "searchPartsMerged", faulted |-> FALSE, outcome |-> "returned",
                value |-> searchPartsMerged(baseVal, adminVal, searchTerm, limit)]
  /\ UNCHANGED <<workflow, inputs, tools>>

\* Any base dataset under any admin overrides, searched for a term that is not empty.
InitOverlay ==
  /\ WorkflowIdle
  /\ baseVal \in Datasets(MaxOverrides)
  /\ adminVal \in Datasets(MaxOverrides)
  /\ bomVal = <<>>
  /\ ticketsVal = <<>>
  /\ searchTerm \in Terms \ {<<>>}
  /\ limit \in 1..MaxLimit
  /\ result = NoResult
  /\ ToolsIdle

NextOverlay == SearchParts \/ SearchPartsMerged

SpecOverlay == InitOverlay /\ [][NextOverlay]_vars

\* ------------------------------------------------------------- pagination

\* The Parts node holds at most this many children in the paginated runs.
MaxPageKeys == 4

\* The i-th child key of the Parts node: "p1" < "p2" < ... in key order.
PageKey(i) == <<"p", DigitChar(i)>>

PageKeys == { PageKey(i) : i \in 1..MaxPageKeys }

\* The place of a key in key order, the order a query without orderBy walks in.
KeyRank(key) == CHOOSE i \in 1..MaxPageKeys : PageKey(i) = key

\* The Parts node with the children of ranks S, as a snapshot yields them: in key order.
InKeyOrder(S) ==
  LET ranks == CHOOSE r \in [1..Cardinality(S) -> S] :
                 \A i, j \in 1..Cardinality(S) : i < j => r[i] < r[j]
  IN [i \in 1..Cardinality(S) |->
        [material |-> PageKey(ranks[i]), part |-> [type |-> "object", fields |-> <<>>]]]

PagedDatasets == { InKeyOrder(S) : S \in SUBSET (1..MaxPageKeys) }

\* getPaginatedParts without a cursor: startAfter is undefined, or the empty string,
\* which the code treats alike (if (startAfter)).
NoCursor == <<>>

\* startAt(startAfter): the children from that key on, the key itself included.
startAt(children, startAfter) ==
  SelectSeq(children, LAMBDA e : KeyRank(e.material) >= KeyRank(startAfter))

\* The cursor row is left in the page.
dropCursorKept(data, startAfter) == data

\* if (startAfter && Object.keys(data).length > 0) {
\*   if (keys[0] === startAfter) delete data[keys[0]]; }
dropCursor(data, startAfter) ==
  IF startAfter # NoCursor /\ data # <<>> /\ data[1].material = startAfter
  THEN Tail(data)
  ELSE data

\* getPaginatedParts of firebase.ts; ok tells whether its read succeeds.
getPaginatedParts(children, lim, startAfter, ok) ==
  IF ~ok THEN <<>>
  ELSE IF startAfter # NoCursor
       THEN dropCursor(limitToFirst(startAt(children, startAfter), lim + 1), startAfter)
       ELSE dropCursor(limitToFirst(children, lim), startAfter)

\* The key of the last row of a page.
LastKey(data) == data[Len(data)].material

\* A caller awaits getPaginatedParts(limit): the first page.
GetFirstPage ==
  /\ \E ok \in BOOLEAN :
       result' = [op |-> "getPaginatedParts", faulted |-> ~ok, outcome |-> readOutcome(ok),
                  startAfter |-> NoCursor,
                  value |-> getPaginatedParts(adminVal, limit, NoCursor, ok)]
  /\ UNCHANGED <<workflow, inputs, tools>>

\* A caller that holds a page awaits getPaginatedParts(limit, k), k the last key of
\* that page.
GetNextPage ==
  /\ result.op = "getPaginatedParts"
  /\ result.value # <<>>
  /\ \E ok \in BOOLEAN :
       result' = [op |-> "getPaginatedParts", faulted |-> ~ok, outcome |-> readOutcome(ok),
                  startAfter |-> LastKey(result.value),
                  value |-> getPaginatedParts(adminVal, limit, LastKey(result.value), ok)]
  /\ UNCHANGED <<workflow, inputs, tools>>

\* A caller awaits getPaginatedParts(limit, k) with a key k it got earlier: the row
\* of that key may have been removed from the node since.
GetPageAfter ==
  /\ \E k \in PageKeys, ok \in BOOLEAN :
       result' = [op |-> "getPaginatedParts", faulted |-> ~ok, outcome |-> readOutcome(ok),
                  startAfter |-> k,
                  value |-> getPaginatedParts(adminVal, limit, k, ok)]
  /\ UNCHANGED <<workflow, inputs, tools>>

\* Any Parts node, paged through under any limit.
InitPages ==
  /\ WorkflowIdle
  /\ baseVal = <<>>
  /\ adminVal \in PagedDatasets
  /\ bomVal = <<>>
  /\ ticketsVal = <<>>
  /\ searchTerm = <<>>
  /\ limit \in 0..MaxLimit
  /\ result = NoResult
  /\ ToolsIdle

NextPages == GetFirstPage \/ GetNextPage \/ GetPageAfter

SpecPages == InitPages /\ [][NextPages]_vars

\* ------------------------------------------------------ bill of materials

\* A model's subtree holds at most this many component children.
MaxComponents == 2

\* The number 0 among the string-spelled values of a component row.
Zero == "#0"

\* null
Null == [type |-> "null"]

\* The values the || operator replaces by its right operand.
Falsy(v) == v \in {Undefined, "", Zero}

\* left || right
orElse(left, right) == IF Falsy(left) THEN right ELSE left

BoMModels == {"M1", "M2"}

\* The i-th component key of a model: "K1" < "K2" < ... in key order.
ComponentKey(i) == "K" \o DigitChar(i)

\* What a component row can hold: any of its named fields may be absent, a price may
\* be the number 0, and a row may carry a Component_Material of its own.
ComponentFields ==
  { f \in UNION { [F -> {"other", "desc", "#12", Zero, "sup"}] :
                    F \in SUBSET {"Component_Material", "Component_Description",
                                  "Standard_Price", "Supplier"} } :
      /\ "Component_Material" \in DOMAIN f => f["Component_Material"] = "other"
      /\ "Component_Description" \in DOMAIN f => f["Component_Description"] = "desc"
      /\ "Standard_Price" \in DOMAIN f => f["Standard_Price"] \in {"#12", Zero}
      /\ "Supplier" \in DOMAIN f => f["Supplier"] = "sup" }

\* A list value: typeof says 'object', and it has none of the named fields.
ArrayValue == [type |-> "array", fields |-> <<>>]

\* The values a child of a model subtree can have: a record, a number, a list.
ComponentValues ==
  { [type |-> "object", fields |-> f] : f \in ComponentFields } \cup {Scalar, ArrayValue}

\* The members of a set of numbers in rising order.
Rising(S) ==
  CHOOSE r \in [1..Cardinality(S) -> S] :
    \A i, j \in 1..Cardinality(S) : i < j => r[i] < r[j]

\* The subtrees BoM/{model}: children in key order, each with any value.
BoMSubtrees ==
  UNION { { [i \in 1..Cardinality(S) |->
               [material |-> ComponentKey(Rising(S)[i]), part |-> v[i]]] :
              v \in [1..Cardinality(S) -> ComponentValues] } :
          S \in SUBSET (1..MaxComponents) }

\* componentData && typeof componentData === 'object'
isObject(value) == value.type \in {"object", "array"}

\* Standard_Price: componentData.Standard_Price || '' : the default is not a number.
componentPriceOrEmpty(fields) == orElse(Field(fields, "Standard_Price"), "")

\* Standard_Price: componentData.Standard_Price || 0
componentPrice(fields) == orElse(Field(fields, "Standard_Price"), Zero)

\* components[materialCode] = { Component_Material: materialCode, ... }
componentOf(e) ==
  [material |-> e.material,
   part |-> [Component_Material |-> e.material,
             Component_Description |-> orElse(Field(e.part.fields, "Component_Description"), ""),
             Standard_Price |-> componentPrice(e.part.fields),
             Supplier |-> orElse(Field(e.part.fields, "Supplier"), "")]]

\* snapshot.val() of BoM/{model}: null, here the empty subtree, when there is none.
subtreeOf(bom, model) == IF model \in DOMAIN bom THEN bom[model] ELSE <<>>

\* getBoMComponents of firebase.ts; ok tells whether its read succeeds.
getBoMComponents(bom, model, ok) ==
  IF ~ok THEN <<>>
  ELSE LET rows == SelectSeq(subtreeOf(bom, model), LAMBDA e : isObject(e.part))
       IN [i \in 1..Len(rows) |-> componentOf(rows[i])]

\* getAllBoMModels: data ? Object.keys(data) : [], and [] when the read fails.
getAllBoMModels(bom, ok) ==
  IF ok THEN SelectSeq(<<"M1", "M2">>, LAMBDA model : model \in DOMAIN bom) ELSE <<>>

\* A caller awaits getBoMComponents(model).
GetBoMComponents ==
  /\ \E ok \in BOOLEAN, model \in BoMModels :
       result' = [op |-> "getBoMComponents", faulted |-> ~ok, outcome |-> readOutcome(ok),
                  model |-> model, value |-> getBoMComponents(bomVal, model, ok)]
  /\ UNCHANGED <<workflow, inputs, tools>>

\* A caller awaits getAllBoMModels().
GetAllBoMModels ==
  /\ \E ok \in BOOLEAN :
       result' = [op |-> "getAllBoMModels", faulted |-> ~ok, outcome |-> readOutcome(ok),
                  value |-> getAllBoMModels(bomVal, ok)]
  /\ UNCHANGED <<workflow, inputs, tools>>

\* The bill of materials of one model, or none at all.
InitBoM ==
  /\ WorkflowIdle
  /\ baseVal = <<>>
  /\ adminVal = <<>>
  /\ bomVal \in {<<>>} \cup { [model \in {"M1"} |-> t] : t \in BoMSubtrees \ {<<>>} }
  /\ ticketsVal = <<>>
  /\ searchTerm = <<>>
  /\ limit = 0
  /\ result = NoResult
  /\ ToolsIdle

NextBoM == GetBoMComponents \/ GetAllBoMModels

SpecBoM == InitBoM /\ [][NextBoM]_vars

\* ------------------------------------------------------- the other reads

\* The n-th ticket pushed under PartApplications: push keys rise in push order.
TicketId(n) == "-T" \o DigitChar(n)

\* What submitPartApplication stores for an application pushed as the n-th ticket:
\* { ...application, ticket_id: ticketId, created_at: Date.now() }
ticketRecord(application, n) ==
  Spread(application, [ticket_id |-> TicketId(n), created_at |-> n])

\* An application as the callers of submitPartApplication pass it.
TicketApplication == [requested_by |-> "v", status |-> "pending"]

\* getPartByMaterial: snapshot.val() of Parts/{material}, null when there is no such
\* child or the read fails.
getPartByMaterial(children, material, ok) ==
  IF ok /\ IndexOf(children, material) # 0
  THEN children[IndexOf(children, material)].part
  ELSE Null

\* getAllPartApplications: Object.values(data).reverse(), [] when there is no data or
\* the read fails.
getAllPartApplications(tickets, ok) ==
  IF ok THEN [i \in 1..Len(tickets) |-> tickets[Len(tickets) + 1 - i]] ELSE <<>>

\* getPartApplication: snapshot.val() of PartApplications/{ticketId}, null when there
\* is no such ticket or the read fails.
getPartApplication(tickets, ticketId, ok) ==
  IF ok /\ \E i \in 1..Len(tickets) : tickets[i].ticket_id = ticketId
  THEN tickets[CHOOSE i \in 1..Len(tickets) : tickets[i].ticket_id = ticketId]
  ELSE Null

\* A caller awaits getPartByMaterial(material).
GetPartByMaterial ==
  /\ \E ok \in BOOLEAN, material \in PageKeys :
       result' = [op |-> "getPartByMaterial", faulted |-> ~ok, outcome |-> readOutcome(ok),
                  value |-> getPartByMaterial(adminVal, material, ok)]
  /\ UNCHANGED <<workflow, inputs, tools>>

\* A caller awaits getAllPartApplications().
GetAllPartApplications ==
  /\ \E ok \in BOOLEAN :
       result' = [op |-> "getAllPartApplications", faulted |-> ~ok,
                  outcome |-> readOutcome(ok),
                  value |-> getAllPartApplications(ticketsVal, ok)]
  /\ UNCHANGED <<workflow, inputs, tools>>

\* A caller awaits getPartApplication(ticketId).
GetPartApplication ==
  /\ \E ok \in BOOLEAN, n \in 1..2 :
       result' = [op |-> "getPartApplication", faulted |-> ~ok, outcome |-> readOutcome(ok),
                  value |-> getPartApplication(ticketsVal, TicketId(n), ok)]
  /\ UNCHANGED <<workflow, inputs, tools>>

\* A caller awaits getPartApplications().
GetPartApplications ==
  /\ \E ok \in BOOLEAN :
       result' = [op |-> "getPartApplications", faulted |-> ~ok, outcome |-> readOutcome(ok),
                  value |-> getPartApplications(ok)]
  /\ UNCHANGED <<workflow, inputs, tools>>

\* Every node of the database holds something or nothing, and any read is made.
InitReads ==
  /\ PagesIdle
  /\ \E st \in InitialStores : apps = st.apps /\ blobs = st.blobs
  /\ baseVal \in { d \in Datasets(1) : \A i \in 1..Len(d) : d[i].material = <<"a", "b">> }
  /\ adminVal \in PagedDatasets
  /\ bomVal \in {<<>>, [model \in {"M1"} |-> <<[material |-> ComponentKey(1), part |-> Scalar]>>]}
  /\ ticketsVal \in {<<>>, <<ticketRecord(TicketApplication, 1)>>}
  /\ searchTerm \in {<<>>, <<"a">>}
  /\ limit \in 1..MaxLimit
  /\ result = NoResult
  /\ ToolsIdle

NextReads ==
  \/ GetAllParts
  \/ SearchParts
  \/ GetFirstPage
  \/ GetNextPage
  \/ GetPartByMaterial
  \/ GetAllBoMModels
  \/ GetBoMComponents
  \/ GetAllPartApplications
  \/ GetPartApplication
  \/ GetPartApplications

SpecReads == InitReads /\ [][NextReads]_vars

\* ------------------------------------------------------ the other writes

\* At most this many tickets are pushed under PartApplications.
MaxTickets == 2

\* The four uploads of an image under {name}.png, one body under four names.
UploadOps ==
  {"uploadApplicationImage", "uploadPartImage", "uploadPartApplicationImage",
   "uploadPartImageWithCode"}

\* The object names a direct caller uploads under.
UploadNames == AppIds \cup {"P1"}

\* A caller other than the page's submit calls one of the uploads with a file and the
\* name (ticket id, application id or part code) to store it under, and awaits it.
uploadImage(c, op, name, file) ==
  /\ Quiet
  /\ UNCHANGED <<catalogue, tools>>
  /\ pc[c] = "idle"
  /\ flows < MaxFlows
  /\ flows' = flows + 1
  /\ frame' = [frame EXCEPT ![c] =
         [NoFrame EXCEPT !.op = op, !.applicationId = name, !.blob = file,
                         !.caller = "direct"]]
  /\ pc' = [pc EXCEPT ![c] = "up_bytes"]
  /\ ret' = [ret EXCEPT ![c] = NoRet]
  /\ UNCHANGED <<apps, blobs, page, srcAtStart>>

\* const snapshot = await uploadBytes(imageRef, file)
UploadBytes(c) ==
  /\ Quiet
  /\ UNCHANGED <<catalogue, tools>>
  /\ pc[c] = "up_bytes"
  /\ \E ok \in BOOLEAN :
       IF ok
       THEN /\ blobs' = Put(blobs, StorageKey(frame[c].applicationId), frame[c].blob)
            /\ pc' = [pc EXCEPT ![c] = "up_url"]
            /\ UNCHANGED <<apps, applications, formData, selectedFile, isSubmitting, message,
                           approveDialog, partCode, frame, ret, srcAtStart, flows>>
       ELSE Threw(c, frame[c].op, "uploadBytes")

\* const downloadURL = await getDownloadURL(snapshot.ref); return downloadURL
UploadUrl(c) ==
  /\ Quiet
  /\ UNCHANGED <<catalogue, tools>>
  /\ pc[c] = "up_url"
  /\ \E ok \in BOOLEAN :
       IF ok /\ StorageKey(frame[c].applicationId) \in DOMAIN blobs
       THEN /\ ret' = [ret EXCEPT ![c] = Settled(c, frame[c].op, "returned")]
            /\ pc' = [pc EXCEPT ![c] = "done"]
            /\ frame' = [frame EXCEPT ![c] = NoFrame]
            /\ UNCHANGED <<apps, blobs, applications, formData, selectedFile, isSubmitting,
                           message, approveDialog, partCode, srcAtStart, flows>>
       ELSE Threw(c, frame[c].op, "getDownloadURL")

\* FirebaseService.submitPartApplication(application), up to its await: push() makes
\* the key on the client.
submitPartApplication(c, application) ==
  /\ Quiet
  /\ UNCHANGED <<catalogue, tools>>
  /\ pc[c] = "idle"
  /\ flows < MaxFlows
  /\ Len(ticketsVal) < MaxTickets
  /\ flows' = flows + 1
  /\ frame' = [frame EXCEPT ![c] =
         [NoFrame EXCEPT !.op = "submitPartApplication", !.application = application,
                         !.caller = "direct"]]
  /\ pc' = [pc EXCEPT ![c] = "tk_set"]
  /\ ret' = [ret EXCEPT ![c] = NoRet]
  /\ UNCHANGED <<apps, blobs, page, srcAtStart>>

\* await set(newRef, fullApplication); return ticketId
TicketSet(c) ==
  /\ Quiet
  /\ pc[c] = "tk_set"
  /\ UNCHANGED <<baseVal, adminVal, bomVal, searchTerm, limit, result, tools>>
  /\ \E ok \in BOOLEAN :
       IF ok
       THEN /\ ticketsVal' =
                 Append(ticketsVal, ticketRecord(frame[c].application, Len(ticketsVal) + 1))
            /\ ret' = [ret EXCEPT ![c] = Settled(c, "submitPartApplication", "returned")]
            /\ pc' = [pc EXCEPT ![c] = "done"]
            /\ frame' = [frame EXCEPT ![c] = NoFrame]
            /\ UNCHANGED <<apps, blobs, applications, formData, selectedFile, isSubmitting,
                           message, approveDialog, partCode, srcAtStart, flows>>
       ELSE Threw(c, "submitPartApplication", "set") /\ UNCHANGED ticketsVal

\* The fields updatePartData can be asked to set, and a part can hold.
UpdateFields == {"notes", "year"}

\* What writer c sets a field to.
UpdateValue(c) == "by-" \o c

\* The updates writer c passes: some of the fields, each set to c's value.
UpdatesOf(c) == UNION { [F -> {UpdateValue(c)}] : F \in (SUBSET UpdateFields) \ {{}} }

\* The Parts node before any update: nothing, or one part that is a number or holds
\* some of the fields.
UpdateDatasets ==
  {<<>>} \cup
  { <<[material |-> PageKey(1), part |-> v]>> :
      v \in {Scalar} \cup { [type |-> "object", fields |-> f] :
                              f \in UNION { [F -> {"old"}] :
                                               F \in (SUBSET UpdateFields) \ {{}} } } }

\* ...(currentData.val() || {}): the fields of the stored part, none when there is no
\* such part or it is no object.
currentFields(children, material) ==
  IF IndexOf(children, material) # 0 /\ isRecord(children[IndexOf(children, material)].part)
  THEN children[IndexOf(children, material)].part.fields
  ELSE <<>>

\* set(partRef, value): the child is replaced where it stands, a new child takes its
\* place in key order.
setChild(children, material, value) ==
  IF IndexOf(children, material) # 0
  THEN [children EXCEPT ![IndexOf(children, material)].part = value]
  ELSE SelectSeq(children, LAMBDA e : KeyRank(e.material) < KeyRank(material))
         \o <<[material |-> material, part |-> value]>>
         \o SelectSeq(children, LAMBDA e : KeyRank(e.material) > KeyRank(material))

\* updatedData that holds the updates alone.
updatedDataOnlyUpdates(currentData, updates) == updates

\* const updatedData = { ...(currentData.val() || {}), ...updates }
updatedData(currentData, updates) == Spread(currentData, updates)

\* FirebaseService.updatePartData(material, updates), up to its first await.
updatePartData(c, material, updates) ==
  /\ Quiet
  /\ UNCHANGED <<catalogue, tools>>
  /\ pc[c] = "idle"
  /\ flows < MaxFlows
  /\ flows' = flows + 1
  /\ frame' = [frame EXCEPT ![c] =
         [NoFrame EXCEPT !.op = "updatePartData", !.material = material,
                         !.updates = updates, !.caller = "direct"]]
  /\ pc' = [pc EXCEPT ![c] = "upd_get"]
  /\ ret' = [ret EXCEPT ![c] = NoRet]
  /\ UNCHANGED <<apps, blobs, page, srcAtStart>>

\* const currentData = await get(partRef)
UpdateGet(c) ==
  /\ Quiet
  /\ UNCHANGED <<catalogue, tools>>
  /\ pc[c] = "upd_get"
  /\ \E ok \in BOOLEAN :
       IF ok
       THEN /\ frame' = [frame EXCEPT ![c].currentData =
                           currentFields(adminVal, frame[c].material)]
            /\ pc' = [pc EXCEPT ![c] = "upd_set"]
            /\ UNCHANGED <<apps, blobs, applications, formData, selectedFile, isSubmitting,
                           message, approveDialog, partCode, ret, srcAtStart, flows>>
       ELSE Threw(c, "updatePartData", "get")

\* await set(partRef, updatedData)
UpdateSet(c) ==
  /\ Quiet
  /\ pc[c] = "upd_set"
  /\ UNCHANGED <<baseVal, bomVal, ticketsVal, searchTerm, limit, result, tools>>
  /\ \E ok \in BOOLEAN :
       IF ok
       THEN /\ adminVal' =
                 setChild(adminVal, frame[c].material,
                          [type |-> "object",
                           fields |-> updatedData(frame[c].currentData, frame[c].updates)])
            /\ ret' = [ret EXCEPT ![c] = Settled(c, "updatePartData", "returned")]
            /\ pc' = [pc EXCEPT ![c] = "done"]
            /\ frame' = [frame EXCEPT ![c] = NoFrame]
            /\ UNCHANGED <<apps, blobs, applications, formData, selectedFile, isSubmitting,
                           message, approveDialog, partCode, srcAtStart, flows>>
       ELSE Threw(c, "updatePartData", "set") /\ UNCHANGED adminVal

\* The stores as the page's clients find them, over any Parts node.
InitWrites ==
  /\ PagesIdle
  /\ \E st \in InitialStores : apps = st.apps /\ blobs = st.blobs
  /\ baseVal = <<>>
  /\ adminVal \in UpdateDatasets
  /\ bomVal = <<>>
  /\ ticketsVal = <<>>
  /\ searchTerm = <<>>
  /\ limit = 0
  /\ result = NoResult
  /\ ToolsIdle

\* One session calling the writes of the service.
WriteStep(c) ==
  \/ DismissMessage(c)
  \/ \E application \in ApiApplications : savePartApplication(c, application)
  \/ SubmitSave(c)
  \/ \E i \in AppIds, code \in ApiCodes : approvePartApplication(c, i, code)
  \/ ApproveGet(c)
  \/ ApproveSet(c)
  \/ submitPartApplication(c, TicketApplication)
  \/ TicketSet(c)
  \/ \E material \in {PageKey(1), PageKey(2)}, updates \in UpdatesOf(c) :
        updatePartData(c, material, updates)
  \/ UpdateGet(c)
  \/ UpdateSet(c)
  \/ \E op \in UploadOps, name \in UploadNames, file \in Contents :
        uploadImage(c, op, name, file)
  \/ UploadBytes(c)
  \/ UploadUrl(c)

NextWrites == WriteStep("c1")

SpecWrites == InitWrites /\ [][NextWrites]_vars

\* Two writers of the Parts node.
UpdateStep(c) ==
  \/ DismissMessage(c)
  \/ \E material \in {PageKey(1), PageKey(2)}, updates \in UpdatesOf(c) :
        updatePartData(c, material, updates)
  \/ UpdateGet(c)
  \/ UpdateSet(c)

NextUpdate == \E c \in Clients : UpdateStep(c)

SpecUpdate == InitWrites /\ [][NextUpdate]_vars

\* ------------------------------------------- the copy strategy (pdf.ts)

\* What the canvas path uploads: the picture drawn and encoded again as PNG, not the
\* bytes of the source.
Canvas(bytes) == "png(" \o bytes \o ")"

\* FirebaseService.copyImageToPartCode(applicationId, partCode) of the copy-strategy
\* revision, called and awaited.
copyImageToPartCode(c, applicationId, code) ==
  /\ Quiet
  /\ UNCHANGED <<catalogue, tools>>
  /\ pc[c] = "idle"
  /\ flows < MaxFlows
  /\ flows' = flows + 1
  /\ frame' = [frame EXCEPT ![c] =
         [NoFrame EXCEPT !.op = "copyImageToPartCode", !.applicationId = applicationId,
                         !.code = code, !.caller = "direct"]]
  /\ pc' = [pc EXCEPT ![c] = "cp_get"]
  /\ ret' = [ret EXCEPT ![c] = NoRet]
  /\ srcAtStart' = [srcAtStart EXCEPT ![c] = BytesAt(StorageKey(applicationId))]
  /\ UNCHANGED <<apps, blobs, page>>

\* Client c's call goes on at pc value `next` with frame `f`; nothing is stored.
CopyGoes(c, next, f) ==
  /\ pc' = [pc EXCEPT ![c] = next]
  /\ frame' = [frame EXCEPT ![c] = f]
  /\ UNCHANGED <<apps, blobs, applications, formData, selectedFile, isSubmitting, message,
                 approveDialog, partCode, ret, srcAtStart, flows>>

\* Client c's call returns to its caller.
CopyReturns(c) ==
  /\ pc' = [pc EXCEPT ![c] = "done"]
  /\ frame' = [frame EXCEPT ![c] = NoFrame]
  /\ ret' = [ret EXCEPT ![c] = Settled(c, "copyImageToPartCode", "returned")]
  /\ srcAtStart' = [srcAtStart EXCEPT ![c] = NoBlobBytes]
  /\ UNCHANGED <<apps, blobs, applications, formData, selectedFile, isSubmitting, message,
                 approveDialog, partCode, flows>>

\* const appSnapshot = await get(appRef); if (!appSnapshot.exists()) throw ...;
\* if (!currentImageUrl) return ''
CopyGet(c) ==
  /\ Quiet
  /\ UNCHANGED <<catalogue, tools>>
  /\ pc[c] = "cp_get"
  /\ \E ok \in BOOLEAN :
       IF ok /\ frame[c].applicationId \in DOMAIN apps
       THEN IF Truthy(Field(apps[frame[c].applicationId], "imageUrl"))
            THEN CopyGoes(c, "cp_fetch",
                          [frame[c] EXCEPT !.url = apps[frame[c].applicationId].imageUrl])
            ELSE CopyReturns(c)
       ELSE CopyGoes(c, "cp_catch", frame[c])

\* The fetch sits in the try block with nothing around it: when it raises, the catch
\* block of copyImageToPartCode runs.
afterFetchRaised == "cp_catch"

\* const response = await fetch(currentImageUrl, ...); if (!response.ok) return await
\* this.copyImageViaCanvas(...); const imageBlob = await response.blob().  The fetch
\* raises (the browser blocks it, the network is down), or a response comes: ok with
\* the object's bytes, or not ok.
CopyFetch(c) ==
  /\ Quiet
  /\ UNCHANGED <<catalogue, tools>>
  /\ pc[c] = "cp_fetch"
  /\ \E outcome \in {"raises", "notok", "ok"} :
       CASE outcome = "raises" -> CopyGoes(c, afterFetchRaised, frame[c])
         [] outcome = "notok" -> CopyGoes(c, "cv_load", frame[c])
         [] outcome = "ok" ->
              IF KeyOfURL(frame[c].url) \in DOMAIN blobs
              THEN CopyGoes(c, "cp_upload", [frame[c] EXCEPT !.blob = fetchBlob(frame[c].url)])
              ELSE CopyGoes(c, "cv_load", frame[c])

\* await uploadBytes(newImageRef, imageBlob), of either path
CopyUpload(c) ==
  /\ Quiet
  /\ UNCHANGED <<catalogue, tools>>
  /\ pc[c] \in {"cp_upload", "cv_upload"}
  /\ \E ok \in BOOLEAN :
       IF ok
       THEN /\ blobs' = Put(blobs, newKey(c), frame[c].blob)
            /\ pc' = [pc EXCEPT ![c] = IF pc[c] = "cp_upload" THEN "cp_url" ELSE "cv_url"]
            /\ UNCHANGED <<apps, applications, formData, selectedFile, isSubmitting, message,
                           approveDialog, partCode, frame, ret, srcAtStart, flows>>
       ELSE CopyGoes(c, "cp_catch", frame[c])

\* const newImageUrl = await getDownloadURL(uploadSnapshot.ref); return newImageUrl,
\* of either path
CopyUrl(c) ==
  /\ Quiet
  /\ UNCHANGED <<catalogue, tools>>
  /\ pc[c] \in {"cp_url", "cv_url"}
  /\ \E ok \in BOOLEAN :
       IF ok /\ newKey(c) \in DOMAIN blobs
       THEN CopyReturns(c)
       ELSE CopyGoes(c, "cp_catch", frame[c])

\* copyImageViaCanvas: img.src = imageUrl, then img.onload (drawImage, canvas.toBlob)
\* or img.onerror; the promise is rejected when the picture does not load or no blob
\* comes of the canvas.
CanvasLoad(c) ==
  /\ Quiet
  /\ UNCHANGED <<catalogue, tools>>
  /\ pc[c] = "cv_load"
  /\ \E ok \in BOOLEAN :
       IF ok /\ KeyOfURL(frame[c].url) \in DOMAIN blobs
       THEN CopyGoes(c, "cv_upload",
                     [frame[c] EXCEPT !.blob = Canvas(blobs[KeyOfURL(frame[c].url)])])
       ELSE CopyGoes(c, "cp_catch", frame[c])

\* catch (error) { ...; const appSnapshot = await get(appRef); if (exists) return
\* appData.imageUrl || ''; return ''; }: a get that fails here is thrown on.
CopyCatch(c) ==
  /\ Quiet
  /\ UNCHANGED <<catalogue, tools>>
  /\ pc[c] = "cp_catch"
  /\ \E ok \in BOOLEAN :
       IF ok THEN CopyReturns(c) ELSE Threw(c, "copyImageToPartCode", "get")

\* One session calling the copy of the copy-strategy revision.
CopyStep(c) ==
  \/ DismissMessage(c)
  \/ \E i \in AppIds, code \in ApiCodes : copyImageToPartCode(c, i, code)
  \/ CopyGet(c)
  \/ CopyFetch(c)
  \/ CopyUpload(c)
  \/ CopyUrl(c)
  \/ CanvasLoad(c)
  \/ CopyCatch(c)

NextCopy == CopyStep("c1")

SpecCopy == Init /\ [][NextCopy]_vars

\* ------------------------------------------------------- document renderer

\* Lines the text of an optional section wraps to, at most.
MaxLines == 8

\* new jsPDF('p', 'mm', 'a4'): the page in millimetres.
pageWidth == 210
pageHeight == 297
margin == 20
contentWidth == pageWidth - 2 * margin

\* const maxHeight = 120
maxHeight == 120

\* The ticket the document is generated for.
RenderTicket == "T1"

\* `https://firebasestorage.googleapis.com/v0/b/<bucket>/o/part-applications%2F${ticket_id}.<ext>?alt=media`
guessedUrl(ticket_id, ext) ==
  "https://firebasestorage.googleapis.com/v0/b/parts-catalogue-mgx.appspot.com/o/part-applications%2F"
    \o ticket_id \o "." \o ext \o "?alt=media"

\* What application.image_url can hold: nothing, a URL of its own, one of the guesses.
StoredImageUrls == {"", "https://host/photo.jpg", guessedUrl(RenderTicket, "jpg")}

\* The lines an optional text wraps to (splitTextToSize): 0 for a text that is empty.
SectionLines == {0, MaxLines}

\* The applications a document is generated for; an optional text by its lines.
RenderApplications ==
  [ticket_id : {RenderTicket}, image_url : StoredImageUrls,
   technical_specs : SectionLines, justification : SectionLines,
   application_notes : SectionLines]

\* The natural sizes of the images behind the URLs (img.width, img.height).
ImageSizes ==
  { [width |-> 100, height |-> 50], [width |-> 340, height |-> 170],
    [width |-> 100, height |-> 300] }

\* How the load of one image source settles: onerror fires; onload fires and the
\* image is drawn; onload fires and getContext('2d') gives null; onload fires and the
\* drawing raises.
ImageOutcomes ==
  { [kind |-> k, width |-> 0, height |-> 0] : k \in {"error", "noctx", "threw"} }
    \cup { [kind |-> "drawn", width |-> z.width, height |-> z.height] : z \in ImageSizes }

\* pdf.pdfText(t, x, y): the text goes on the current page at height y.
pdfText(doc, t, y) ==
  [doc EXCEPT !.content =
     Append(@, [page |-> doc.page, y |-> y, item |-> t, src |-> "", height |-> 0])]

\* yPosition += dy
down(doc, dy) == [doc EXCEPT !.yPosition = @ + dy]

\* pdf.addPage(); yPosition = margin
addPage(doc) == [doc EXCEPT !.page = @ + 1, !.yPosition = margin]

\* if (yPosition > pageHeight - room) { pdf.addPage(); yPosition = margin; }
breakIfPast(doc, room) == IF doc.yPosition > pageHeight - room THEN addPage(doc) ELSE doc

\* The title, the ticket lines, and the sections 'Part Information' and 'Request
\* Information', each field of the former on one line.
fixedSections(doc) ==
  LET title == down(pdfText(doc, "Part Application Form", doc.yPosition), 15)
      ticket == down(pdfText(title, "Ticket ID", title.yPosition), 10)
      date == down(pdfText(ticket, "Application Date", ticket.yPosition), 15)
      status == down(pdfText(date, "Status", date.yPosition), 15)
      part == down(pdfText(status, "Part Information", status.yPosition), 8)
      fields == down(part, 3 * (1 * 5 + 3) + 5)
      request == down(pdfText(fields, "Request Information", fields.yPosition), 8)
  IN  down(request, 3 * 7 + 5)

\* if (application.technical_specs) { heading, the lines }
technicalSpecs(doc, lines) ==
  IF lines = 0 THEN doc
  ELSE down(pdfText(doc, "Technical Specifications", doc.yPosition), 8 + lines * 5 + 10)

\* if (application.justification) { page break past pageHeight - 60, heading, the lines }
justification(doc, lines) ==
  IF lines = 0 THEN doc
  ELSE LET d == breakIfPast(doc, 60)
       IN  down(pdfText(d, "Business Justification", d.yPosition), 8 + lines * 5 + 10)

\* if (application.application_notes) { page break past pageHeight - 40, heading, the lines }
additionalNotes(doc, lines) ==
  IF lines = 0 THEN doc
  ELSE LET d == breakIfPast(doc, 40)
       IN  down(pdfText(d, "Additional Notes", d.yPosition), 8 + lines * 5 + 10)

\* generateEnglishPage down to the image section: let yPosition = margin, and the text.
textSections(application) ==
  additionalNotes(
    justification(
      technicalSpecs(
        fixedSections([NoDocument EXCEPT !.application = application, !.page = 1,
                                         !.yPosition = margin]),
        application.technical_specs),
      application.justification),
    application.application_notes)

\* const imageUrls = []; the stored URL if there is one, then the two guesses.
imageUrlsOf(application) ==
  (IF application.image_url # "" THEN <<application.image_url>> ELSE <<>>)
    \o <<guessedUrl(application.ticket_id, "jpg"), guessedUrl(application.ticket_id, "png")>>

\* The body of the for loop down to its await: the page break, the heading, and
\* img.src = imageUrl for the source at doc.index.
beginAttempt(doc) ==
  LET d == breakIfPast(doc, 100)
      h == down(pdfText(d, "Attached Image", d.yPosition), 10)
  IN  [h EXCEPT !.requests = Append(@, doc.imageUrls[doc.index]), !.pc = "img_load"]

\* The size the image is drawn at: shrunk to contentWidth, then to maxHeight, the
\* aspect ratio kept.
fit(size) ==
  LET w1 == IF size.width > contentWidth THEN contentWidth ELSE size.width
      h1 == IF size.width > contentWidth
            THEN (contentWidth * size.height) \div size.width ELSE size.height
  IN  IF h1 > maxHeight
      THEN [width |-> (maxHeight * size.width) \div size.height, height |-> maxHeight]
      ELSE [width |-> w1, height |-> h1]

\* img.onload with a drawing context: pdf.addImage(imgData, 'JPEG', margin, yPosition,
\* width, height); yPosition += height + 10
drawImage(doc, size) ==
  down([doc EXCEPT !.content =
          Append(@, [page |-> doc.page, y |-> doc.yPosition, item |-> "image",
                     src |-> doc.imageUrls[doc.index], height |-> fit(size).height])],
       fit(size).height + 10)

\* What the promise of one load resolves to.
imageLoadedOf(outcome) == outcome.kind \in {"drawn", "noctx"}

\* The loop goes on to the next source whatever the load gave.
breaksNever(imageLoaded) == FALSE

\* if (imageLoaded) { break; }
breaks(imageLoaded) == imageLoaded

\* The footer, and back in generateApplicationPDF: pdf.save(filename).
finish(doc) ==
  [pdfText(doc, "Generated", pageHeight - 15) EXCEPT
     !.pc = "done", !.saved = doc.application.ticket_id \o "_application.pdf"]

\* PDFService.generateApplicationPDF(application), up to the first await of the
\* image loop.
generateApplicationPDF(application) ==
  /\ pdf.pc \in {"idle", "done"}
  /\ pdf' = beginAttempt([textSections(application) EXCEPT
                            !.imageUrls = imageUrlsOf(application), !.index = 1])
  /\ UNCHANGED <<workflow, catalogue, photo>>

\* The load of the current source settles; the loop breaks, or goes on to the next
\* source, or ends.
ImageSettles ==
  /\ pdf.pc = "img_load"
  /\ \E outcome \in ImageOutcomes :
       LET drawn == IF outcome.kind = "drawn" THEN drawImage(pdf, outcome) ELSE pdf
           settled == [drawn EXCEPT !.imageLoaded = Append(@, imageLoadedOf(outcome))]
       IN  pdf' = IF breaks(imageLoadedOf(outcome)) \/ settled.index = Len(settled.imageUrls)
                  THEN finish(settled)
                  ELSE beginAttempt([settled EXCEPT !.index = @ + 1])
  /\ UNCHANGED <<workflow, catalogue, photo>>

InitRender == WorkflowIdle /\ CatalogueIdle

NextRender ==
  \/ \E application \in RenderApplications : generateApplicationPDF(application)
  \/ ImageSettles

SpecRender == InitRender /\ [][NextRender]_vars

\* ---------------------------------------------------------- Take Photo page

\* What a user types into the part code input of the Take Photo page.
PhotoTyped == { <<>>, <<" ">>, <<" ", "P", "1", " ">>, <<"P", "2">> }

\* The files a user can pick: the photos, and a file that is no image.
NotAnImage == "notes.txt"
PickedFiles == Contents \cup {NotAnImage}

\* file.type.startsWith('image/')
isImage(file) == file \in Contents

\* reader.readAsDataURL(file): the data URL of the file's bytes.
DataURL(file) == "data:" \o file

\* showMessage(type, text): setMessage({ type, text })
showMessage(type, t) == [type |-> type, text |-> t]

\* The page's own state changes to next, the stores staying as they are.
PhotoOnly(next) ==
  /\ photo' = next
  /\ UNCHANGED <<workflow, catalogue, pdf>>

\* handleFileSelect: an image becomes selectedFile and is handed to a FileReader, any
\* other file is refused.  The buttons that open the picker are disabled while
\* isUploading.
handleFileSelect(file) ==
  /\ photo.pc = "idle"
  /\ PhotoOnly(IF isImage(file)
               THEN [photo EXCEPT !.selectedFile = file, !.reading = file]
               ELSE [photo EXCEPT !.message = showMessage("error", "Please select an image file")])

\* reader.onload: setImagePreview(e.target.result)
ReaderLoaded ==
  /\ photo.reading # NoFile
  /\ PhotoOnly([photo EXCEPT !.imagePreview = DataURL(photo.reading), !.reading = NoFile])

\* The part code input: onChange={(e) => setPartCode(e.target.value)}, disabled while
\* isUploading.
setPartCode(typed) ==
  /\ photo.pc = "idle"
  /\ PhotoOnly([photo EXCEPT !.partCode = typed])

\* clearPhoto, the button on the preview: shown with a preview, disabled while
\* isUploading.
clearPhoto ==
  /\ photo.pc = "idle"
  /\ photo.imagePreview # NoFile
  /\ PhotoOnly([photo EXCEPT !.selectedFile = NoFile, !.imagePreview = NoFile])

\* setTimeout(() => setMessage(null), 5000)
PhotoMessageTimeout ==
  /\ photo.message # NoMessage
  /\ PhotoOnly([photo EXCEPT !.message = NoMessage])

\* uploadGuard that does not look at the part code.
uploadGuardFileOnly(file, typed) ==
  IF file = NoFile THEN "Please select or take a photo first" ELSE ""

\* The two tests handleUpload begins with: the text of the error it shows, "" when
\* the upload may go ahead.
uploadGuard(file, typed) ==
  IF file = NoFile THEN "Please select or take a photo first"
  ELSE IF trim(typed) = <<>> THEN "Please enter a part code" ELSE ""

\* handleUpload up to its await: the tests, setIsUploading(true), and the call of
\* uploadPartImageWithCode(selectedFile, partCode.trim()).
handleUpload ==
  /\ photo.pc = "idle"
  /\ PhotoOnly(IF uploadGuard(photo.selectedFile, photo.partCode) # ""
               THEN [photo EXCEPT !.message =
                       showMessage("error", uploadGuard(photo.selectedFile, photo.partCode))]
               ELSE [photo EXCEPT !.isUploading = TRUE, !.pc = "up_bytes",
                                  !.file = photo.selectedFile,
                                  !.code = Join(trim(photo.partCode))])

\* The catch and the finally of handleUpload: showMessage('error', 'Failed to upload
\* photo'); setIsUploading(false).
uploadFailed(p) ==
  [p EXCEPT !.message = showMessage("error", "Failed to upload photo"),
            !.isUploading = FALSE, !.pc = "idle", !.file = NoFile, !.code = ""]

\* handleUpload after the await: the success banner, the form reset, and the finally.
uploadSucceeded(p) ==
  [p EXCEPT !.message = showMessage("success",
                                    "Photo uploaded successfully as " \o Join(p.partCode)),
            !.selectedFile = NoFile, !.imagePreview = NoFile, !.partCode = <<>>,
            !.isUploading = FALSE, !.pc = "idle", !.file = NoFile, !.code = ""]

\* uploadPartImageWithCode: const snapshot = await uploadBytes(imageRef, file); a
\* failure is rethrown into handleUpload.
PhotoUploadBytes ==
  /\ photo.pc = "up_bytes"
  /\ \E ok \in BOOLEAN :
       IF ok
       THEN /\ blobs' = Put(blobs, StorageKey(photo.code), photo.file)
            /\ photo' = [photo EXCEPT !.pc = "up_url"]
       ELSE /\ photo' = uploadFailed(photo)
            /\ UNCHANGED blobs
  /\ UNCHANGED <<apps, page, pc, frame, ret, srcAtStart, flows, catalogue, pdf>>

\* uploadPartImageWithCode: const downloadURL = await getDownloadURL(snapshot.ref);
\* return downloadURL, and handleUpload goes on.
PhotoUploadUrl ==
  /\ photo.pc = "up_url"
  /\ \E ok \in BOOLEAN :
       PhotoOnly(IF ok /\ StorageKey(photo.code) \in DOMAIN blobs
                 THEN uploadSucceeded(photo)
                 ELSE uploadFailed(photo))

InitPhoto == WorkflowIdle /\ CatalogueIdle

NextPhoto ==
  \/ \E file \in PickedFiles : handleFileSelect(file)
  \/ ReaderLoaded
  \/ \E typed \in PhotoTyped : setPartCode(typed)
  \/ clearPhoto
  \/ PhotoMessageTimeout
  \/ handleUpload
  \/ PhotoUploadBytes
  \/ PhotoUploadUrl

SpecPhoto == InitPhoto /\ [][NextPhoto]_vars

\* ------------------------------------------------- the approve flow under faults

\* The awaits of renamePartApplicationImage on the storage service.
RenameBlobPcs == {"rn_url", "rn_fetch", "rn_upload", "rn_delete", "rn_newurl"}

\* The stored record i is approved with part code `code`.
ApprovedWith(store, i, code) ==
  /\ i \in DOMAIN store
  /\ Field(store[i], "status") = "approved"
  /\ Field(store[i], "partCode") = code

\* C1: whenever the approve flow driven by handleApprove ends at a storage step of the
\* re-homing (getDownloadURL, fetch, uploadBytes, deleteObject), the page reports
\* success and the stored record is approved with the code that was entered.
C1_ApproveSucceedsWhenRehomingFails ==
  [][\A c \in Clients :
       (pc[c] \in RenameBlobPcs /\ pc'[c] = "done")
         => /\ message'[c].type = "success"
            /\ ApprovedWith(apps', frame[c].applicationId, frame[c].code)]_vars

\* C2: every call of renamePartApplicationImage that has settled has returned
\* normally to its caller; none has thrown.
C2_RenameNeverThrows ==
  \A c \in Clients :
    ret[c].op = "renamePartApplicationImage" => ret[c].outcome = "returned"

\* ------------------------------------------------------------------- submits

\* Client c's savePartApplication, awaited by handleSubmit, writes its record now.
SubmitStores(c) == pc[c] = "sub_save" /\ pc'[c] = "sub_load"

\* C3: a successful submit stores its record under an identifier no earlier submit
\* has used: the identifier is new to the database when the record is written.
C3_SubmitIdIsFresh ==
  [][\A c \in Clients : SubmitStores(c) => frame[c].applicationId \notin DOMAIN apps]_vars

\* The user of client c clicks Submit now (the approve dialog is closed, no service is
\* called directly).
SubmitClicked(c) ==
  /\ pc[c] = "idle"
  /\ pc'[c] \in {"done", "sub_upload"}
  /\ approveDialog'[c] = NoApplication

\* The form of client c lacks a required field or the image, as it is submitted.
Incomplete(c) ==
  \/ \E f \in RequiredFields : formData'[c][f] = ""
  \/ selectedFile'[c] = NoFile

\* C4: a submit of a form that lacks a required field or the image ends at once in an
\* error banner: no remote call is begun, the database and the bucket are unchanged and
\* no identifier is generated.
C4_IncompleteSubmitRejected ==
  [][\A c \in Clients :
       (SubmitClicked(c) /\ Incomplete(c))
         => /\ pc'[c] = "done"
            /\ message'[c].type = "error"
            /\ apps' = apps
            /\ blobs' = blobs
            /\ frame'[c] = NoFrame]_vars

\* A submit has been turned down for the missing image alone.
C4_Witness ==
  /\ pc["c1"] = "done"
  /\ message["c1"] = ErrorMessage("Please upload an image")
  /\ selectedFile["c1"] = NoFile
  /\ \A f \in RequiredFields : formData["c1"][f] # ""

\* ------------------------------------------------------------------ approvals

\* The user of client c clicks Approve in the dialog now, having typed nothing but
\* white space.
ApproveClickedBlank(c) ==
  /\ pc[c] = "idle"
  /\ pc'[c] # "idle"
  /\ approveDialog'[c] # NoApplication
  /\ trim(partCode'[c]) = <<>>

\* C5, for the page: handleApprove with an empty or white-space part code ends at once
\* in the banner "Please enter a part code"; no service call is begun and the database
\* and the bucket are unchanged.
C5_BlankCodeRejectedByPage ==
  [][\A c \in Clients :
       ApproveClickedBlank(c)
         => /\ pc'[c] = "done"
            /\ message'[c] = ErrorMessage("Please enter a part code")
            /\ apps' = apps
            /\ blobs' = blobs
            /\ frame'[c] = NoFrame]_vars

\* An approve has been turned down for a part code of white space.
C5_Witness ==
  /\ pc["c1"] = "done"
  /\ message["c1"] = ErrorMessage("Please enter a part code")
  /\ partCode["c1"] = <<" ">>
  /\ approveDialog["c1"] # NoApplication

\* C5, as stated for every caller: while approvePartApplication runs with an empty or
\* white-space part code it writes nothing, and it does not return normally.
C5_BlankCodeRejectedByService ==
  [][\A c \in Clients :
       (pc[c] \in {"apv_get", "apv_set"} /\ frame[c].code \in BlankCodes)
         => /\ apps' = apps
            /\ blobs' = blobs
            /\ ret'[c] # [op |-> "approvePartApplication", outcome |-> "returned",
                         failed |-> "none"]]_vars

\* C6: a stored application record has a partCode field exactly when its status is
\* approved.
C6_PartCodeIffApproved ==
  \A i \in DOMAIN apps :
    ("partCode" \in DOMAIN apps[i]) <=> (Field(apps[i], "status") = "approved")

\* An approved record whose image has been re-homed under its part code, next to a
\* record that is still pending.
C6_Witness ==
  /\ \E i \in DOMAIN apps :
       /\ Field(apps[i], "status") = "approved"
       /\ Truthy(Field(apps[i], "partCode"))
       /\ Field(apps[i], "imageUrl") = DownloadURL(StorageKey(apps[i].partCode))
  /\ \E i \in DOMAIN apps :
       Field(apps[i], "status") = "pending" /\ "partCode" \notin DOMAIN apps[i]

\* C7: an approved record stays approved and keeps its part code, whatever is done
\* next.
C7_ApprovedIsFinal ==
  [][\A i \in DOMAIN apps :
       Field(apps[i], "status") = "approved"
         => /\ i \in DOMAIN apps'
            /\ Field(apps'[i], "status") = "approved"
            /\ Field(apps'[i], "partCode") = Field(apps[i], "partCode")]_vars

\* ------------------------------------------------------------------ re-homing

\* Client c's renamePartApplicationImage writes the record and returns now.
RenameReturns(c) ==
  /\ pc[c] = "rn_set"
  /\ \/ pc'[c] = "app_load"
     \/ ret'[c] = [op |-> "renamePartApplicationImage", outcome |-> "returned",
                   failed |-> "none"]

\* C8: when the re-homing of application A's image to part code B (B other than A)
\* returns, the bucket holds under B.png the bytes A.png held when the operation
\* began, and the record's imageUrl is the download URL of B.png, not that of A.png.
C8_ImageRehomed ==
  [][\A c \in Clients :
       (/\ RenameReturns(c)
        /\ frame[c].code # frame[c].applicationId
        /\ srcAtStart[c] # NoBlobBytes)
         => /\ StorageKey(frame[c].code) \in DOMAIN blobs'
            /\ blobs'[StorageKey(frame[c].code)] = srcAtStart[c]
            /\ apps'[frame[c].applicationId].imageUrl = DownloadURL(StorageKey(frame[c].code))
            /\ apps'[frame[c].applicationId].imageUrl
                 # DownloadURL(StorageKey(frame[c].applicationId))]_vars

\* handleApprove has approved an application under part code P1 and re-homed its
\* image with no fault: P1.png holds the bytes, the old object is gone.
C8_Witness ==
  /\ pc["c1"] = "app_load"
  /\ frame["c1"].code = "P1"
  /\ srcAtStart["c1"] \in Contents
  /\ BytesAt(StorageKey("P1")) = srcAtStart["c1"]
  /\ StorageKey(frame["c1"].applicationId) \notin DOMAIN blobs
  /\ ApprovedWith(apps, frame["c1"].applicationId, "P1")
  /\ apps[frame["c1"].applicationId].imageUrl = DownloadURL(StorageKey("P1"))

\* --------------------------------------------------------------------- parts

\* Snapshot val holds an object under material.
HasRecord(val, material) ==
  \E i \in 1..Len(val) : val[i].material = material /\ isRecord(val[i].part)

\* The fields of the object snapshot val holds under material.
RecordOf(val, material) ==
  val[CHOOSE i \in 1..Len(val) : val[i].material = material /\ isRecord(val[i].part)].part.fields

ContainsIgnoringCase(text, term) ==
  \E i \in 0..(Len(text) - Len(term)) :
    \A k \in 1..Len(term) : toLowerChar(text[i + k]) = toLowerChar(term[k])

\* Entry e matches term by its material code, its SPRAS_EN or its Supplier_Name.
Matches(e, term) ==
  \/ ContainsIgnoringCase(e.material, term)
  \/ /\ isRecord(e.part)
     /\ \E f \in {"SPRAS_EN", "Supplier_Name"} \cap DOMAIN e.part.fields :
          ContainsIgnoringCase(e.part.fields[f], term)

\* The first lim entries of the source mapping that match term, in its order.
FirstMatches(source, term, lim) ==
  LET all == SelectSeq(source, LAMBDA e : Matches(e, term))
  IN  SubSeq(all, 1, IF lim < Len(all) THEN lim ELSE Len(all))

\* C10: for a term that is not empty, what searchParts returns (its read having
\* succeeded) has at most limit entries, each matching the term by material code,
\* SPRAS_EN or Supplier_Name with letter case ignored, and they are the first limit
\* matching entries of the source mapping in its iteration order.
C10_FirstLimitMatches ==
  (result.op = "searchParts" /\ ~result.faulted /\ searchTerm # <<>>) =>
    /\ Len(result.value) <= limit
    /\ \A i \in 1..Len(result.value) : Matches(result.value[i], searchTerm)
    /\ result.value = FirstMatches(baseVal, searchTerm, limit)

\* searchParts has stopped at the limit: of two entries that match "a", the first by
\* its material code "A", it has returned the first alone.
C10_Witness ==
  /\ result.op = "searchParts"
  /\ ~result.faulted
  /\ searchTerm = <<"a">>
  /\ limit = 1
  /\ Len(baseVal) = 2
  /\ baseVal[1].material = <<"A">>
  /\ Matches(baseVal[2], searchTerm)
  /\ result.value = <<baseVal[1]>>

\* ------------------------------------------------------- search, empty term

\* C11: searchParts with an empty term, when its read succeeds, returns the first
\* `limit` entries of the base dataset as they are, matching or not: at most `limit`
\* entries, and exactly `limit` of them when the dataset has that many.
C11_EmptyTermFirstLimit ==
  (result.op = "searchParts" /\ searchTerm = <<>> /\ ~result.faulted)
    => /\ Len(result.value) <= limit
       /\ Len(baseVal) >= limit => Len(result.value) = limit
       /\ Len(result.value) <= Len(baseVal)
       /\ \A i \in 1..Len(result.value) : result.value[i] = baseVal[i]

\* An empty-term search has cut a longer dataset down to its first `limit` entries,
\* one of which is no record and could match nothing.
C11_Witness ==
  /\ result.op = "searchParts"
  /\ searchTerm = <<>>
  /\ ~result.faulted
  /\ limit = 1
  /\ Len(baseVal) = 2
  /\ Len(result.value) = 1
  /\ ~isRecord(result.value[1].part)

\* ------------------------------------------------------------- pagination

\* C12: the page fetched with the last key of the page before as its cursor does not
\* hold that key: the boundary row is not returned a second time.
C12_BoundaryRowNotRepeated ==
  (result.op = "getPaginatedParts" /\ result.startAfter # NoCursor)
    => \A i \in 1..Len(result.value) : result.value[i].material # result.startAfter

\* Over more than two keys and with limit 2, the second page has been fetched from the
\* last key of the first and begins at the third key.
C12_Witness ==
  /\ result.op = "getPaginatedParts"
  /\ ~result.faulted
  /\ limit = 2
  /\ Len(adminVal) > 2
  /\ result.startAfter = adminVal[2].material
  /\ result.value # <<>>
  /\ result.value[1] = adminVal[3]

\* ------------------------------------------------------ bill of materials

\* The child of a model subtree found under a key.
ChildAt(subtree, key) == subtree[CHOOSE i \in 1..Len(subtree) : subtree[i].material = key]

\* The keys of a sequence of keyed rows.
KeysOf(rows) == { rows[i].material : i \in 1..Len(rows) }

\* A value with children of its own, as against a leaf (a number, a string); a list is
\* a node whose children are numbered.
Structured(value) == value # Scalar

\* A row's field, the default when the row has no such field.
FieldOr(fields, name, default) == IF name \in DOMAIN fields THEN fields[name] ELSE default

\* C15: getBoMComponents, when its read succeeds, returns one entry for each child of
\* the model subtree whose value is structured and none for any other child; the entry
\* stands under the child key, its Component_Material is that key, and a description,
\* price or supplier the child lacks is "", 0 and "".
C15_ComponentsOfRecords ==
  (result.op = "getBoMComponents" /\ ~result.faulted)
    => LET subtree == subtreeOf(bomVal, result.model)
       IN /\ result.outcome = "returned"
          /\ KeysOf(result.value) = { k \in KeysOf(subtree) : Structured(ChildAt(subtree, k).part) }
          /\ \A i, j \in 1..Len(result.value) :
                i # j => result.value[i].material # result.value[j].material
          /\ \A i \in 1..Len(result.value) :
                LET row == result.value[i]
                    fields == ChildAt(subtree, row.material).part.fields
                IN /\ row.part.Component_Material = row.material
                   /\ row.part.Component_Description = FieldOr(fields, "Component_Description", "")
                   /\ row.part.Standard_Price = FieldOr(fields, "Standard_Price", Zero)
                   /\ row.part.Supplier = FieldOr(fields, "Supplier", "")

\* A subtree of a number and of a record that has a description only has been read: it
\* yields the record's row alone, with price 0 and no supplier.
C15_Witness ==
  /\ result.op = "getBoMComponents"
  /\ ~result.faulted
  /\ Len(subtreeOf(bomVal, result.model)) = 2
  /\ subtreeOf(bomVal, result.model)[1].part = Scalar
  /\ Len(result.value) = 1
  /\ result.value[1] =
       [material |-> ComponentKey(2),
        part |-> [Component_Material |-> ComponentKey(2), Component_Description |-> "desc",
                  Standard_Price |-> Zero, Supplier |-> ""]]

\* ------------------------------------------------------------------- reads

\* The empty or null value a read gives when its remote call failed.
Sentinel(op) ==
  IF op \in {"getPartByMaterial", "getPartApplication"} THEN Null ELSE <<>>

ReadOps ==
  {"getAllParts", "searchParts", "getPaginatedParts", "getPartByMaterial",
   "getAllBoMModels", "getBoMComponents", "getAllPartApplications", "getPartApplication",
   "getPartApplications"}

\* C13: every read returns to its caller, and when its remote call failed what it
\* returns is its sentinel: the empty mapping or list, or null.
C13_ReadsDegradeToSentinel ==
  result.op \in ReadOps
    => /\ result.outcome = "returned"
       /\ result.faulted => result.value = Sentinel(result.op)

\* The read of a part that is there has failed and given null.
C13_Witness ==
  /\ result.op = "getPartByMaterial"
  /\ result.faulted
  /\ result.value = Null
  /\ Len(adminVal) = MaxPageKeys

\* ------------------------------------------------------------------ writes

PrimaryWrites ==
  UploadOps \cup {"submitPartApplication", "savePartApplication", "approvePartApplication",
                  "updatePartData"}

\* The remote calls that write: a record into the database, bytes into the bucket.
RemoteWrites == {"set", "uploadBytes"}

\* C14: a primary write (submitPartApplication, savePartApplication,
\* approvePartApplication, updatePartData, an image upload) whose remote call failed,
\* its write or upload above all, has thrown to its caller: it has not returned.
C14_FailedWriteThrows ==
  \A c \in Clients :
    (ret[c].op \in PrimaryWrites /\ ret[c].failed # "none") => ret[c].outcome = "threw"

\* updatePartData has thrown because its set failed, and the part is as it was.
C14_Witness ==
  /\ ret["c1"] = [op |-> "updatePartData", outcome |-> "threw", failed |-> "set"]
  /\ adminVal = <<>>
  /\ flows = 1

\* Writer c's set of updatePartData stores its record now.
UpdateWrites(c) == pc[c] = "upd_set" /\ pc'[c] = "done" /\ ret'[c].outcome = "returned"

\* The fields stored under a material.
StoredFields(children, material) == currentFields(children, material)

\* C20: when updatePartData writes, every field named in its updates gets the new
\* value; a field not named keeps its stored value if nobody wrote the part since the
\* writer read it, and otherwise falls back to the value the writer read: what another
\* writer stored in it in between is gone.
C20_ReadMergeWrite ==
  [][\A c \in Clients :
       UpdateWrites(c)
         => LET before == StoredFields(adminVal, frame[c].material)
                after == StoredFields(adminVal', frame[c].material)
                read == frame[c].currentData
            IN \A g \in UpdateFields :
                 /\ g \in DOMAIN frame[c].updates => Field(after, g) = frame[c].updates[g]
                 /\ (g \notin DOMAIN frame[c].updates /\ read = before)
                      => Field(after, g) = Field(before, g)
                 /\ (g \notin DOMAIN frame[c].updates /\ Field(read, g) # Field(before, g))
                      => /\ Field(after, g) = Field(read, g)
                         /\ Field(after, g) # Field(before, g)]_vars

\* The first writer has read the part and is about to write its notes; the second
\* writer has stored a year since, which the first writer has not read.
C20_Witness ==
  /\ pc["c1"] = "upd_set"
  /\ frame["c1"].material = PageKey(1)
  /\ frame["c1"].updates = [g \in {"notes"} |-> UpdateValue("c1")]
  /\ Field(frame["c1"].currentData, "year") = Undefined
  /\ Field(StoredFields(adminVal, PageKey(1)), "year") = UpdateValue("c2")

\* ------------------------------------------------- re-homing, the source object

\* C16: an object leaves the bucket only as the source of a re-homing whose upload
\* under the destination key has succeeded: the re-homing stands at its deleteObject
\* and the destination holds the bytes it uploaded; and whether that delete succeeds
\* or fails, the re-homing goes on to its next step and does not throw.
C16_DeleteAfterUpload ==
  [][/\ (DOMAIN blobs) \ (DOMAIN blobs') # {}
        => \E c \in Clients :
             /\ pc[c] = "rn_delete"
             /\ (DOMAIN blobs) \ (DOMAIN blobs') = {oldKey(c)}
             /\ newKey(c) \in DOMAIN blobs
             /\ blobs[newKey(c)] = frame[c].blob
     /\ \A c \in Clients :
          (pc[c] = "rn_delete" /\ pc'[c] # "rn_delete")
            => pc'[c] = "rn_newurl" /\ ret'[c] = ret[c]]_vars

\* The source has been deleted after its bytes were stored under the part code.
C16_Witness ==
  /\ pc["c1"] = "rn_newurl"
  /\ oldKey("c1") # newKey("c1")
  /\ oldKey("c1") \notin DOMAIN blobs
  /\ BytesAt(newKey("c1")) = srcAtStart["c1"]
  /\ srcAtStart["c1"] \in Contents

ResolvesTo(bucket, url) ==
  IF KeyOfURL(url) \in DOMAIN bucket THEN bucket[KeyOfURL(url)] ELSE NoBlobBytes

C18_CanvasAfterFailedFetch ==
  [][\A c \in Clients :
       /\ (pc[c] = "cp_fetch" /\ pc'[c] \notin {"cp_fetch", "cp_upload"})
            => pc'[c] = "cv_load"
       /\ (pc[c] = "cv_upload" /\ pc'[c] = "cv_url")
            => blobs' = Put(blobs, StorageKey(frame[c].code), frame[c].blob)]_vars

\* ------------------------------------------------------ concurrent submits

\* The awaits of handleSubmit.
SubmitPcs == {"sub_upload", "sub_url", "sub_save", "sub_load"}

\* C19: two submits under way whose clients have loaded lists of the same length
\* work under the same identifier; and a submit stores its image and its record under
\* its identifier whatever is there already, so that the later of the two replaces
\* the image and the record of the earlier.
C19_SameCountSameId ==
  [][/\ \A c, d \in Clients :
          (/\ pc'[c] \in SubmitPcs
           /\ pc'[d] \in SubmitPcs
           /\ Cardinality(DOMAIN applications'[c]) = Cardinality(DOMAIN applications'[d]))
            => frame'[c].applicationId = frame'[d].applicationId
     /\ \A c \in Clients :
          /\ (pc[c] = "sub_upload" /\ pc'[c] = "sub_url")
               => /\ DOMAIN blobs' = (DOMAIN blobs) \cup {StorageKey(frame[c].applicationId)}
                  /\ blobs'[StorageKey(frame[c].applicationId)] = selectedFile[c]
          /\ SubmitStores(c)
               => /\ DOMAIN apps' = (DOMAIN apps) \cup {frame[c].applicationId}
                  /\ apps'[frame[c].applicationId].imageUrl
                       = DownloadURL(StorageKey(frame[c].applicationId))
                  /\ apps'[frame[c].applicationId].submittedAt = "now"]_vars

\* Both clients submitted from the same empty list and both have stored: there is one
\* record and one image, the image of the client that uploaded last.
C19_Witness ==
  /\ pc["c1"] = "sub_load"
  /\ pc["c2"] = "sub_load"
  /\ applications["c1"] = <<>>
  /\ applications["c2"] = <<>>
  /\ frame["c1"].applicationId = frame["c2"].applicationId
  /\ Cardinality(DOMAIN apps) = 1
  /\ DOMAIN blobs = {StorageKey(frame["c1"].applicationId)}
  /\ blobs[StorageKey(frame["c1"].applicationId)] = FileOf("c2")

\* ------------------------------------------------- search over the merged set

\* The entries before position i of a mapping that match term.
EarlierMatches(mapping, i, term) == { j \in 1..(i - 1) : Matches(mapping[j], term) }

\* What a search has to find in the merged set: every matching entry with fewer than
\* lim matching entries before it.
DueMatches(merged, term, lim) ==
  { merged[i] : i \in { k \in 1..Len(merged) :
                          /\ Matches(merged[k], term)
                          /\ Cardinality(EarlierMatches(merged, k, term)) < lim } }

\* The entries a search has returned.
Returned == { result.value[k] : k \in 1..Len(result.value) }

\* C21: searchParts of firebase.ts with a term that is not empty, its read having
\* succeeded, returns every entry of the merged set (base overlaid by the admin
\* overrides) that matches the term and has fewer than limit matching entries
\* before it, among them the entries that match by an overridden field alone and
\* the entries the override dataset alone holds.
C21_SearchCoversOverrides ==
  (result.op = "searchParts" /\ ~result.faulted /\ searchTerm # <<>>) =>
    DueMatches(getAllPartsMerged(baseVal, adminVal), searchTerm, limit) \subseteq Returned

\* The same statement of the merging revision's searchParts.
MergedSearchCoversOverrides ==
  result.op = "searchPartsMerged" =>
    DueMatches(getAllPartsMerged(baseVal, adminVal), searchTerm, limit) \subseteq Returned

\* ------------------------------------------------------------ image sources

\* The images the document holds.
Images == { k \in 1..Len(pdf.content) : pdf.content[k].item = "image" }

\* The 'Attached Image' headings the document holds.
ImageHeadings == { k \in 1..Len(pdf.content) : pdf.content[k].item = "Attached Image" }

\* C22: the renderer requests the image sources in the order stored URL, first guess,
\* second guess; it requests a source only after the load of every earlier one gave
\* false, requests none after a load that gave true, ends only after such a load or
\* after the last source, and the document never holds more than one image, which is
\* the one of the source whose load gave true.
C22_SourcesInOrder ==
  /\ Len(pdf.requests) <= Len(pdf.imageUrls)
  /\ pdf.requests = SubSeq(pdf.imageUrls, 1, Len(pdf.requests))
  /\ pdf.pc # "idle" =>
       /\ pdf.imageUrls = imageUrlsOf(pdf.application)
       /\ Len(pdf.imageLoaded) = Len(pdf.requests) - (IF pdf.pc = "img_load" THEN 1 ELSE 0)
  /\ \A k \in 1..Len(pdf.imageLoaded) : pdf.imageLoaded[k] => k = Len(pdf.requests)
  /\ pdf.pc = "done" =>
       \/ pdf.imageLoaded[Len(pdf.imageLoaded)]
       \/ Len(pdf.requests) = Len(pdf.imageUrls)
  /\ Cardinality(Images) <= 1
  /\ \A k \in Images :
       /\ pdf.imageLoaded # <<>> /\ pdf.imageLoaded[Len(pdf.imageLoaded)]
       /\ pdf.content[k].src = pdf.requests[Len(pdf.requests)]

\* The stored URL and the first guess have failed to load, the second guess has
\* loaded, and the document is saved with that one image.
C22_Witness ==
  /\ pdf.pc = "done"
  /\ pdf.application.image_url = "https://host/photo.jpg"
  /\ pdf.imageLoaded = <<FALSE, FALSE, TRUE>>
  /\ \E k \in Images : pdf.content[k].src = guessedUrl(RenderTicket, "png")

\* ------------------------------------------------------ image section heading

\* C29: the document never holds more than one 'Attached Image' heading, and when the
\* renderer has ended with no source loaded it holds none, and its page and vertical
\* cursor are those the text sections left.
C29_HeadingOnlyWithImage ==
  /\ Cardinality(ImageHeadings) <= 1
  /\ (pdf.pc = "done" /\ \A k \in 1..Len(pdf.imageLoaded) : ~pdf.imageLoaded[k]) =>
       /\ ImageHeadings = {}
       /\ pdf.page = textSections(pdf.application).page
       /\ pdf.yPosition = textSections(pdf.application).yPosition

\* ------------------------------------------------------- submit: image first

\* C23: a submit whose upload (uploadBytes or getDownloadURL) fails ends without
\* having written a record; a submit is at its record write only with its image
\* stored under its identifier's key; the record it writes has status pending and as
\* imageUrl the download URL of that key, every other record staying as it was; and
\* no other step of a submit writes a record.
C23_UploadThenRecord ==
  [][/\ \A c \in Clients :
          /\ (pc[c] \in {"sub_upload", "sub_url"} /\ pc'[c] \notin {pc[c], "sub_url", "sub_save"})
               => (pc'[c] = "done" /\ apps' = apps)
          /\ pc'[c] = "sub_save"
               => /\ StorageKey(frame'[c].applicationId) \in DOMAIN blobs'
                  /\ pc[c] \in {"sub_url", "sub_save"}
          /\ SubmitStores(c)
               => /\ apps'[frame[c].applicationId].status = "pending"
                  /\ apps'[frame[c].applicationId].imageUrl
                       = DownloadURL(StorageKey(frame[c].applicationId))
                  /\ StorageKey(frame[c].applicationId) \in DOMAIN blobs'
                  /\ \A id \in (DOMAIN apps) \ {frame[c].applicationId} : apps'[id] = apps[id]
     /\ apps' # apps => \E c \in Clients : SubmitStores(c)]_vars

\* A client that had loaded one application has submitted the second: its record is
\* stored as pending with the URL of its own image, and the other client is idle.
C23_Witness ==
  /\ pc["c1"] = "sub_load"
  /\ pc["c2"] = "idle"
  /\ frame["c1"].applicationId = generateApplicationId(1)
  /\ generateApplicationId(1) \in DOMAIN apps
  /\ apps[generateApplicationId(1)].status = "pending"
  /\ apps[generateApplicationId(1)].imageUrl
       = DownloadURL(StorageKey(generateApplicationId(1)))
  /\ BytesAt(StorageKey(generateApplicationId(1))) = FileOf("c1")

\* ------------------------------------------------------- concurrent approvals

\* No handler is under way on any client.
AllFlowsFinished == \A c \in Clients : pc[c] \in {"idle", "done"}

\* C24: once every flow has finished, the imageUrl of an approved record is the
\* download URL of the blob keyed by the record's partCode (or still that of the blob
\* keyed by its identifier, where no re-homing went through), never that of a blob
\* keyed by another approver's part code.
C24_ImageUrlFollowsPartCode ==
  AllFlowsFinished =>
    \A i \in DOMAIN apps :
      (/\ Field(apps[i], "status") = "approved"
       /\ Truthy(Field(apps[i], "partCode"))
       /\ Truthy(Field(apps[i], "imageUrl")))
        => apps[i].imageUrl \in {DownloadURL(StorageKey(apps[i].partCode)),
                                 DownloadURL(StorageKey(i))}

\* --------------------------------------------------------- the image is kept

\* The awaits of renamePartApplicationImage.
RenamePcs == {"rn_url", "rn_fetch", "rn_upload", "rn_delete", "rn_newurl", "rn_get", "rn_set"}

\* Client c's renamePartApplicationImage ends now, returning or throwing.
RenameEnds(c) == pc[c] \in RenamePcs /\ pc'[c] \notin RenamePcs

\* The bytes stored under a key after the step, NoBlobBytes when there is no such object.
BytesAfter(key) == IF key \in DOMAIN blobs' THEN blobs'[key] ELSE NoBlobBytes

\* C25: when a renamePartApplicationImage that found an image under the source key
\* ends, returning or throwing, the bytes that image had are stored under the source
\* key or under the destination key, whatever the part code.
C25_ImageKept ==
  [][\A c \in Clients :
       (RenameEnds(c) /\ srcAtStart[c] # NoBlobBytes)
         => \/ BytesAfter(oldKey(c)) = srcAtStart[c]
            \/ BytesAfter(newKey(c)) = srcAtStart[c]]_vars

\* ------------------------------------------------- the record's URL resolves

\* C26: when a renamePartApplicationImage ends, returning or throwing, that found an
\* image under the source key and was given a part code other than the identifier,
\* the imageUrl of the stored record, if the record has one, addresses an object the
\* bucket holds.
C26_RecordUrlResolves ==
  [][\A c \in Clients :
       (/\ RenameEnds(c)
        /\ srcAtStart[c] # NoBlobBytes
        /\ frame[c].code # frame[c].applicationId
        /\ frame[c].applicationId \in DOMAIN apps'
        /\ Truthy(Field(apps'[frame[c].applicationId], "imageUrl")))
         => KeyOfURL(apps'[frame[c].applicationId].imageUrl) \in DOMAIN blobs']_vars

\* -------------------------------------------------------- no record is created

\* The awaits of approvePartApplication.
ApprovePcs == {"apv_get", "apv_set"}

\* C27: no step of approvePartApplication or of renamePartApplicationImage adds an
\* identifier to the stored applications, and after each of their steps every stored
\* record has a status.
C27_NoRecordCreated ==
  [][\A c \in Clients :
       pc[c] \in ApprovePcs \cup RenamePcs
         => /\ DOMAIN apps' = DOMAIN apps
            /\ \A i \in DOMAIN apps' : "status" \in DOMAIN apps'[i]]_vars

\* -------------------------------------------------------------- page size

\* C28: what getPaginatedParts returns under a positive limit has at most limit
\* entries, whatever the cursor, a cursor whose key the node does not hold included.
C28_PageWithinLimit ==
  (result.op = "getPaginatedParts" /\ limit > 0) => Len(result.value) <= limit

\* ---------------------------------------------------------------- handleUpload

\* The awaits of handleUpload.
UploadPcs == {"up_bytes", "up_url"}

\* handleUpload, or the upload it awaits, takes a step now.
UploadMoves == photo'.pc # photo.pc

\* handleUpload ends now with the success banner.
UploadSucceeds ==
  /\ photo.pc = "up_url"
  /\ photo'.pc = "idle"
  /\ photo'.message.type = "success"

\* C30: handleUpload goes to its upload only with a file selected and a part code
\* that is not blank, and the bucket changes only by that upload; when the upload has
\* settled either way isUploading is false; a step of handleUpload other than its
\* successful end leaves selectedFile, imagePreview and partCode as they are, and the
\* successful end clears all three.
C30_UploadFrame ==
  [][/\ (photo.pc = "idle" /\ photo'.pc \in UploadPcs)
          => photo.selectedFile # NoFile /\ trim(photo.partCode) # <<>>
     /\ blobs' # blobs
          => /\ photo.pc = "up_bytes"
             /\ photo.selectedFile # NoFile
             /\ trim(photo.partCode) # <<>>
             /\ blobs' = Put(blobs, StorageKey(Join(trim(photo.partCode))), photo.selectedFile)
     /\ (photo.pc \in UploadPcs /\ photo'.pc = "idle") => ~photo'.isUploading
     /\ photo'.pc \in UploadPcs => photo'.isUploading
     /\ (UploadMoves /\ ~UploadSucceeds)
          => /\ photo'.selectedFile = photo.selectedFile
             /\ photo'.imagePreview = photo.imagePreview
             /\ photo'.partCode = photo.partCode
     /\ UploadSucceeds
          => /\ photo'.selectedFile = NoFile
             /\ photo'.imagePreview = NoFile
             /\ photo'.partCode = <<>>]_vars

\* An upload has failed after the bytes were stored: the page shows the error, is no
\* longer uploading, and still holds the photo, its preview and the part code.
C30_Witness ==
  /\ photo.pc = "idle"
  /\ ~photo.isUploading
  /\ photo.message = showMessage("error", "Failed to upload photo")
  /\ photo.selectedFile = "imgA"
  /\ photo.imagePreview = DataURL("imgA")
  /\ photo.partCode = <<" ", "P", "1", " ">>
  /\ BytesAt(StorageKey("P1")) = "imgA"

====
